---- MODULE Spec2Model ----
(***************************************************************************)
(* Constitutive evaluation engine of felupe:                               *)
(*   src/felupe/constitution/df_da_.py                                     *)
(*       Composite, Material, InvariantBased, PrincipalStretchBased        *)
(*   src/src/felupe/constitution/small_strain/_material_strain.py          *)
(*       MaterialStrain                                                    *)
(*   src/src/felupe/constitution/_base.py                                  *)
(*       ConstitutiveMaterial.optimize, CompositeMaterial                  *)
(*   src/src/felupe/assembly/expression/_linear.py                         *)
(*       LinearForm.integrate                                              *)
(*                                                                         *)
(* Tensor components are exact integers.  A batched tensor is a function   *)
(* from the batch points (the trailing (ngauss, nelems) axes, flattened)   *)
(* to a tensor; a second-order tensor is a function on Idx \X Idx, a       *)
(* fourth-order tensor a function on Idx \X Idx \X Idx \X Idx.             *)
(* The tensor algebra of felupe.math (dot, dya, cdya, trace, det,          *)
(* identity, eigh, ravel, reshape, sym) is not part of the sources under   *)
(* study; it is modelled from its documented meaning.                      *)
(***************************************************************************)
EXTENDS Integers, Sequences, FiniteSets, TLC

VARIABLES
    ib,     \* the InvariantBased instance (its attributes)
    ibLog,  \* what the caller of the InvariantBased instance has observed
    ps,     \* the PrincipalStretchBased instance
    psLog,  \* what the caller of the PrincipalStretchBased instance has observed
    ms,     \* the MaterialStrain instance and the descriptor threaded through it
    msLog,  \* what the caller of the MaterialStrain instance has observed
    cp,     \* the Composite instance (its list of materials)
    cpLog,  \* what the caller of the Composite instance has observed
    cm,     \* a CompositeMaterial, its two materials and a running optimize
    cmLog,  \* what the caller of the CompositeMaterial has observed
    lf,     \* a LinearForm.integrate call: its values array and its threads
    lfLog   \* what the caller of LinearForm.integrate has observed

vars == <<ib, ibLog, ps, psLog, ms, msLog, cp, cpLog, cm, cmLog, lf, lfLog>>

\* a component that is not under study in a specification
None == "None"
\* the value of an attribute that was never assigned
Unset == <<>>

(***************************************************************************)
(* What the caller of a material instance has observed so far.             *)
(***************************************************************************)
\* calls: the calls made; updates: how many of them executed the expensive
\* part of update; op, arg, err, ret: the last call, its input and outcome;
\* same: every call so far received the same input
NoLog == [calls |-> 0, updates |-> 0, op |-> None, arg |-> Unset,
          same |-> TRUE, err |-> FALSE, ret |-> Unset]

\* dens: the denominators the last elasticity call divided by
PSNoLog == NoLog @@ [dens |-> <<>>]

\* invoked: how many calls reached the user material function; reached: the
\* last call did; dxdX, sv: the descriptor of the last call; user: what the
\* user function returned; steps: the gradient calls of the chain so far
MSNoLog == [calls |-> 0, invoked |-> 0, reached |-> FALSE, op |-> None,
            dxdX |-> Unset, sv |-> Unset,
            err |-> FALSE, ret |-> Unset, user |-> Unset, steps |-> 0]

\* before: the Composite as it was when the last call was made
CPNoLog == [calls |-> 0, op |-> None, arg |-> Unset, err |-> FALSE, ret |-> Unset,
            before |-> Unset]

(***************************************************************************)
(* Bounds of the model.                                                    *)
(***************************************************************************)
\* number of batch points (ngauss * nelems) of every batched tensor
NPoints == 2
\* number of stress/elasticity calls made on one material instance
MaxCalls == 2

\* df_da_.py works on 3x3 tensors (range(3) over the principal directions)
Dim == 3

Idx == 1..Dim
Idx2 == Idx \X Idx
Idx4 == Idx \X Idx \X Idx \X Idx
Points == 1..NPoints


(***************************************************************************)
(* felupe.math on one batch point (every primitive is elementwise over     *)
(* the batch).                                                             *)
(***************************************************************************)
identity == [ij \in Idx2 |-> IF ij[1] = ij[2] THEN 1 ELSE 0]

trace(A) == A[1, 1] + A[2, 2] + A[3, 3]

dot(A, B) == [ij \in Idx2 |-> A[ij[1], 1] * B[1, ij[2]]
                            + A[ij[1], 2] * B[2, ij[2]]
                            + A[ij[1], 3] * B[3, ij[2]]]

det(A) == A[1, 1] * (A[2, 2] * A[3, 3] - A[2, 3] * A[3, 2])
        - A[1, 2] * (A[2, 1] * A[3, 3] - A[2, 3] * A[3, 1])
        + A[1, 3] * (A[2, 1] * A[3, 2] - A[2, 2] * A[3, 1])

\* dya(A, B)[i,j,k,l] = A[i,j] B[k,l]
dya(A, B) == [q \in Idx4 |-> A[q[1], q[2]] * B[q[3], q[4]]]

\* twice the symmetric crossed dyadic product:
\* cdya(A, B)[i,j,k,l] = (A[i,k] B[j,l] + A[i,l] B[j,k]) / 2
cdya2(A, B) == [q \in Idx4 |-> A[q[1], q[3]] * B[q[2], q[4]]
                             + A[q[1], q[4]] * B[q[2], q[3]]]

Zero2 == [ij \in Idx2 |-> 0]
Zero4 == [q \in Idx4 |-> 0]

diag(x, y, z) == [ij \in Idx2 |-> IF ij[1] # ij[2] THEN 0
                                  ELSE IF ij[1] = 1 THEN x
                                  ELSE IF ij[1] = 2 THEN y ELSE z]

\* an array computed once, when it is built, as numpy does
Eager(f) == f @@ <<>>

\* np.all(X == 0) over a batched array X (of scalars, one per batch point)
\* v bound to a name over the expression F: the value is computed once
Bind(v, F(_)) == F(v)

AllZero(X) == \A p \in Points : X[p] = 0

(***************************************************************************)
(* Inputs of the invariant-based material: left Cauchy-Green tensors b.    *)
(* A batch holds one tensor at its first point and another at every other  *)
(* point.  The zero tensor is an array the code accepts like any other.    *)
(***************************************************************************)
SymB == [ij \in Idx2 |-> IF ij[1] = ij[2] THEN (IF ij[1] = 3 THEN 1 ELSE 2)
                         ELSE IF ij[1] + ij[2] = 3 THEN 1 ELSE 0]

BVals == {Zero2, identity, diag(2, 2, 2), SymB}

Batch(x, y) == [p \in Points |-> IF p = 1 THEN x ELSE y]

BBatches == {Batch(x, x) : x \in BVals}
            \cup {Batch(identity, diag(2, 2, 2)), Batch(Zero2, identity)}

(***************************************************************************)
(* User energy functions umat(invariants) -> (W_a, W_ab), evaluated at one *)
(* batch point.  W_ab is symmetric in each of them.                        *)
(*   NeoHooke     W = (I1 - 3)             (W1 = mu/2 with mu = 2)         *)
(*   MooneyRivlin W = (I1 - 3) + (I2 - 3)                                  *)
(*   Coupled      W = (I1 - 3)^2 + I2 I3                                   *)
(*   Full         W = I1 I2 + I1 I3 + I2^2 + I3^2                          *)
(***************************************************************************)
UmatKinds == {"NeoHooke", "MooneyRivlin", "Coupled", "Full"}

Mat3(a11, a12, a13, a22, a23, a33) ==
    <<<<a11, a12, a13>>, <<a12, a22, a23>>, <<a13, a23, a33>>>>

umat(kind, I) ==
    CASE kind = "NeoHooke" ->
           [W_a |-> <<1, 0, 0>>, W_ab |-> Mat3(0, 0, 0, 0, 0, 0)]
      [] kind = "MooneyRivlin" ->
           [W_a |-> <<1, 1, 0>>, W_ab |-> Mat3(0, 0, 0, 0, 0, 0)]
      [] kind = "Coupled" ->
           [W_a |-> <<2 * (I[1] - 3), I[3], I[2]>>,
            W_ab |-> Mat3(2, 0, 0, 0, 1, 0)]
      [] kind = "Full" ->
           [W_a |-> <<I[2] + I[3], I[1] + 2 * I[2], I[1] + 2 * I[3]>>,
            W_ab |-> Mat3(0, 1, 1, 2, 0, 2)]

(***************************************************************************)
(* class InvariantBased                                                    *)
(***************************************************************************)
\* __init__: self.umat = umat; self.b = 0.  invariants, W_a and W_ab are
\* attributes that exist only once update has assigned them.
InvariantBased(kind) ==
    [umat |-> kind, b |-> 0, invariants |-> Unset, W_a |-> Unset, W_ab |-> Unset]

\* np.all(b == self.b), self.b being a scalar broadcast over the batch
InvariantBased_guard(self, b) ==
    \A p \in Points : \A ij \in Idx2 : b[p][ij] = self.b

\* update: returns the instance after the call and whether the expensive
\* part (invariants and umat) was executed.  self.b is not assigned.
InvariantBased_update(self, b) ==
    IF InvariantBased_guard(self, b)
    THEN [self |-> self, ran |-> FALSE]
    ELSE Bind(Eager([p \in Points |->
                     <<trace(b[p]),
                       (trace(b[p]) * trace(b[p]) - trace(dot(b[p], b[p]))) \div 2,
                       det(b[p])>>]), LAMBDA I :
         Bind(Eager([p \in Points |-> umat(self.umat, I[p])]), LAMBDA W :
             [self |-> [self EXCEPT
                  !.invariants = Eager([k \in 1..3 |-> Eager([p \in Points |-> I[p][k]])]),
                  !.W_a = Eager([k \in 1..3 |-> Eager([p \in Points |-> W[p].W_a[k]])]),
                  !.W_ab = Eager([k \in 1..3 |-> Eager([l \in 1..3 |->
                               Eager([p \in Points |-> W[p].W_ab[k][l]])])])],
              ran |-> TRUE]))

\* the three terms of the stress, each added only if its coefficient is not
\* identically zero over the batch
StressTerm1(s, b, p) == [ij \in Idx2 |-> 2 * s.W_a[1][p] * b[p][ij]]
StressTerm2(s, b, p) ==
    LET bb == dot(b[p], b[p])
    IN  [ij \in Idx2 |-> 2 * s.W_a[2][p] * (s.invariants[1][p] * b[p][ij] - bb[ij])]
StressTerm3(s, b, p) ==
    [ij \in Idx2 |-> 2 * s.W_a[3][p] * s.invariants[3][p] * identity[ij]]

Skip1(s) == AllZero(s.W_a[1])
Skip2(s) == AllZero(s.W_a[2])
Skip3(s) == AllZero(s.W_a[3])

\* stress(b): update, then read self.invariants and self.W_a (err: the
\* AttributeError raised when update never assigned them) and accumulate tau
InvariantBased_stress(self, b) ==
    Bind(InvariantBased_update(self, b), LAMBDA u :
        [self |-> u.self, ran |-> u.ran,
         err |-> u.self.invariants = Unset,
         ret |-> IF u.self.invariants = Unset THEN Unset
                 ELSE [p \in Points |->
                        LET t1 == StressTerm1(u.self, b, p)
                            t2 == StressTerm2(u.self, b, p)
                            t3 == StressTerm3(u.self, b, p)
                        IN  [ij \in Idx2 |->
                               (IF Skip1(u.self) THEN 0 ELSE t1[ij])
                             + (IF Skip2(u.self) THEN 0 ELSE t2[ij])
                             + (IF Skip3(u.self) THEN 0 ELSE t3[ij])]]])


\* the scalar coefficients of elasticity at batch point p
ElastCoeff(s, p) ==
    LET I1 == s.invariants[1][p]
        I3 == s.invariants[3][p]
        W2 == s.W_a[2][p]
        W3 == s.W_a[3][p]
        W11 == s.W_ab[1][1][p]
        W22 == s.W_ab[2][2][p]
        W33 == s.W_ab[3][3][p]
        W12 == s.W_ab[1][2][p]
        W13 == s.W_ab[1][3][p]
        W23 == s.W_ab[2][3][p]
    IN  [a00 |-> W11 + W2 + I1 * W12,
         a11 |-> W22,
         a22 |-> W33 * I3 * I3 + W3 * I3,
         a01 |-> -(W12 + I1 * W22),
         a02 |-> W13 * I3 + W23 * I3 * I1,
         a12 |-> -W23 * I3,
         b00 |-> -W2,
         b22 |-> W3 * I3]

CoeffNames == {"a00", "a11", "a22", "a01", "a02", "a12", "b00", "b22"}

\* the fourth-order tensor that multiplies 4 * coefficient; 4 * cdya is
\* written 2 * cdya2
ElastTerm(name, c, bp) ==
    LET bb == Eager(dot(bp, bp))
        I == identity
    IN  [q \in Idx4 |->
          CASE name = "a00" -> 4 * c * dya(bp, bp)[q]
            [] name = "a11" -> 4 * c * dya(bb, bb)[q]
            [] name = "a22" -> 4 * c * dya(I, I)[q]
            [] name = "a01" -> 4 * c * (dya(bp, bb)[q] + dya(bb, bp)[q])
            [] name = "a02" -> 4 * c * (dya(bp, I)[q] + dya(I, bp)[q])
            [] name = "a12" -> 4 * c * (dya(bb, I)[q] + dya(I, bb)[q])
            [] name = "b00" -> 2 * c * cdya2(bp, bp)[q]
            [] name = "b22" -> 2 * c * cdya2(I, I)[q]]

\* not np.all(coefficient == 0): the term is added
Added(s, name) == \E p \in Points : ElastCoeff(s, p)[name] # 0

RECURSIVE SumOver(_, _)
SumOver(S, f) ==
    IF S = {} THEN 0
    ELSE LET x == CHOOSE y \in S : TRUE IN f[x] + SumOver(S \ {x}, f)

\* elasticity(b): update, then accumulate Jc4 from the terms whose
\* coefficient is not identically zero over the batch
InvariantBased_elasticity(self, b) ==
    Bind(InvariantBased_update(self, b), LAMBDA u :
        [self |-> u.self, ran |-> u.ran,
         err |-> u.self.invariants = Unset,
         ret |-> IF u.self.invariants = Unset THEN Unset
                 ELSE Bind({n \in CoeffNames : Added(u.self, n)}, LAMBDA on :
                      [p \in Points |->
                        Bind(Eager([n \in on |->
                               Eager(ElastTerm(n, ElastCoeff(u.self, p)[n], b[p]))]),
                             LAMBDA terms :
                               Eager([q \in Idx4 |->
                                  SumOver(on, [n \in on |-> terms[n][q]])]))])])

(***************************************************************************)
(* The caller of one InvariantBased instance: it constructs the instance   *)
(* with an energy function and calls stress and elasticity with batches.   *)
(***************************************************************************)

Logged(log, op, b, r) ==
    [calls |-> log.calls + 1,
     updates |-> log.updates + (IF r.ran THEN 1 ELSE 0),
     op |-> op,
     arg |-> b,
     same |-> log.same /\ (log.calls = 0 \/ log.arg = b),
     err |-> r.err,
     ret |-> r.ret]

IBInit ==
    /\ ib \in {InvariantBased(k) : k \in UmatKinds}
    /\ ibLog = NoLog
    /\ ps = None /\ psLog = PSNoLog
    /\ ms = None /\ msLog = MSNoLog
    /\ cp = None /\ cpLog = CPNoLog
    /\ cm = None /\ cmLog = None /\ lf = None /\ lfLog = None

IBStress ==
    /\ ibLog.calls < MaxCalls
    /\ \E b \in BBatches :
         \E r \in {InvariantBased_stress(ib, b)} :
             /\ ib' = r.self
             /\ ibLog' = Logged(ibLog, "stress", b, r)
    /\ UNCHANGED <<ps, psLog, ms, msLog, cp, cpLog, cm, cmLog, lf, lfLog>>

IBElasticity ==
    /\ ibLog.calls < MaxCalls
    /\ \E b \in BBatches :
         \E r \in {InvariantBased_elasticity(ib, b)} :
             /\ ib' = r.self
             /\ ibLog' = Logged(ibLog, "elasticity", b, r)
    /\ UNCHANGED <<ps, psLog, ms, msLog, cp, cpLog, cm, cmLog, lf, lfLog>>

IBNext == IBStress \/ IBElasticity

SpecIB == IBInit /\ [][IBNext]_vars

(***************************************************************************)
(* Floating-point numbers.  PrincipalStretchBased adds a tolerance that    *)
(* defaults to the machine epsilon (tol=np.finfo(float).eps) to a stretch, *)
(* so the rounding of the sum decides what the code divides by.  The model *)
(* keeps the shape of IEEE-754 binary arithmetic with a short significand: *)
(* a finite number is an integer count of eps (the spacing of the numbers  *)
(* in [1, 2)), it has Prec significant bits, every operation rounds its    *)
(* exact result to the nearest such number, ties to the even significand,  *)
(* and overflows to an infinity.  x/0 is an infinity, 0/0 is NaN.          *)
(***************************************************************************)
\* bits of the significand
Prec == 4
\* number of binades above [1, 2) before overflow
MaxExp == 5

RECURSIVE Pow2(_)
Pow2(n) == IF n = 0 THEN 1 ELSE 2 * Pow2(n - 1)

TwoP == Pow2(Prec)

\* 1.0 (in units of eps), the largest finite number, and the special values
One == Pow2(Prec - 1)
FMax == (Pow2(Prec) - 1) * Pow2(MaxExp)
PInf == FMax + 1
NInf == -PInf
NaN == FMax + 2

IsFinite(x) == -FMax <= x /\ x <= FMax

Abs(n) == IF n < 0 THEN -n ELSE n
Sign(n) == IF n < 0 THEN -1 ELSE 1

\* the spacing of the representable numbers at the magnitude n/d
RECURSIVE UlpOf(_, _, _)
UlpOf(n, d, u) == IF n < TwoP * u * d THEN u ELSE UlpOf(n, d, 2 * u)

\* the exact rational n/d (n >= 0, d > 0) rounded to nearest, ties to even
RoundPos(n, d) ==
    Bind(UlpOf(n, d, 1), LAMBDA u :
    Bind(n \div (u * d), LAMBDA q :
    Bind(n - q * u * d, LAMBDA r :
    Bind(IF 2 * r < u * d THEN q
         ELSE IF 2 * r > u * d THEN q + 1
         ELSE IF q % 2 = 0 THEN q ELSE q + 1, LAMBDA m :
        IF m * u > FMax THEN PInf ELSE m * u))))

\* the exact rational n/d (d # 0) rounded
Round(n, d) ==
    IF n = 0 THEN 0
    ELSE Bind(RoundPos(Abs(n), Abs(d)), LAMBDA r :
             IF Sign(n) * Sign(d) < 0 THEN -r ELSE r)

FNeg(x) == IF x = NaN THEN NaN ELSE -x

FAdd(x, y) ==
    IF x = NaN \/ y = NaN THEN NaN
    ELSE IF ~IsFinite(x) THEN (IF y = -x THEN NaN ELSE x)
    ELSE IF ~IsFinite(y) THEN y
    ELSE IF y = 0 THEN x
    ELSE Round(x + y, 1)

FSub(x, y) == FAdd(x, FNeg(y))

FMul(x, y) ==
    IF x = NaN \/ y = NaN THEN NaN
    ELSE IF ~IsFinite(x) \/ ~IsFinite(y)
         THEN (IF x = 0 \/ y = 0 THEN NaN
               ELSE IF Sign(x) * Sign(y) < 0 THEN NInf ELSE PInf)
    ELSE IF x = 0 \/ y = 0 THEN 0
    ELSE Round(x * y, One)

FDiv(x, y) ==
    IF x = NaN \/ y = NaN THEN NaN
    ELSE IF ~IsFinite(x)
         THEN (IF ~IsFinite(y) THEN NaN
               ELSE IF Sign(x) * Sign(y) < 0 THEN NInf ELSE PInf)
    ELSE IF ~IsFinite(y) THEN 0
    ELSE IF y = 0
         THEN (IF x = 0 THEN NaN ELSE IF x < 0 THEN NInf ELSE PInf)
    ELSE Round(x * One, y)

FAbs(x) == IF x = NaN THEN NaN ELSE Abs(x)

\* x < y on floating-point numbers: false when either is NaN
FLess(x, y) == x # NaN /\ y # NaN /\ x < y

\* x == y on floating-point numbers: NaN is equal to nothing
FEq(x, y) == x # NaN /\ y # NaN /\ x = y

\* np.sqrt, correctly rounded: lo and hi are the neighbouring representable
\* numbers around the exact root of x (x >= 0 finite; x counts eps, so the
\* root counts eps when taken of x * One)
FReps == {n \in 0..FMax : Round(n, 1) = n}
FSqrt(x) ==
    IF x = NaN \/ x < 0 THEN NaN
    ELSE IF x = PInf THEN PInf
    ELSE Bind(x * One, LAMBDA v :
         Bind(CHOOSE y \in FReps :
                 /\ y * y <= v
                 /\ \A z \in FReps : z * z <= v => z <= y, LAMBDA lo :
         Bind({z \in FReps : z > lo}, LAMBDA up :
         Bind(IF up = {} THEN lo
              ELSE CHOOSE z \in up : \A w \in up : z <= w, LAMBDA hi :
             IF 4 * v < (lo + hi) * (lo + hi) THEN lo
             ELSE IF 4 * v > (lo + hi) * (lo + hi) THEN hi
             ELSE IF (lo \div UlpOf(lo, 1, 1)) % 2 = 0 THEN lo ELSE hi))))

(***************************************************************************)
(* class PrincipalStretchBased (floating-point components)                 *)
(***************************************************************************)
\* Inputs: diagonal left Cauchy-Green tensors, for which the symmetric
\* eigen-decomposition is known exactly: the eigenvalues are the diagonal
\* entries and the eigenvectors the coordinate axes.  diag(1, 1 + 2 eps, 4)
\* has two stretches one eps apart.
PSVals == {Zero2,
           diag(One, One, One),
           diag(4 * One, 4 * One, 4 * One),
           diag(One, One + 2, 4 * One),
           diag(4 * One, One, One)}

PSBatches == {Batch(x, x) : x \in PSVals}
             \cup {Batch(diag(One, One, One), diag(4 * One, 4 * One, 4 * One))}

\* tolerances: the default np.finfo(float).eps, and a larger one
Tols == {1, 2}

\* eigh of a diagonal tensor: eigenvalues in ascending order, axis[a] the
\* coordinate axis that is the a-th eigenvector
Perms3 == {<<1, 2, 3>>, <<1, 3, 2>>, <<2, 1, 3>>, <<2, 3, 1>>, <<3, 1, 2>>, <<3, 2, 1>>}

eigh(A) ==
    Bind(CHOOSE t \in Perms3 :
            \A a \in 1..2 :
               \/ A[t[a], t[a]] < A[t[a + 1], t[a + 1]]
               \/ A[t[a], t[a]] = A[t[a + 1], t[a + 1]] /\ t[a] < t[a + 1],
         LAMBDA s : [wb |-> [a \in 1..3 |-> A[s[a], s[a]]], axis |-> s])

\* dya(N, N, mode=1) of the unit vector along axis n
Basis(n) == [ij \in Idx2 |-> IF ij[1] = n /\ ij[2] = n THEN One ELSE 0]

\* dya and cdya on floating-point tensors
fdya(A, B) == [q \in Idx4 |-> FMul(A[q[1], q[2]], B[q[3], q[4]])]
fcdya(A, B) ==
    [q \in Idx4 |-> FMul(FAdd(FMul(A[q[1], q[3]], B[q[2], q[4]]),
                              FMul(A[q[1], q[4]], B[q[2], q[3]])),
                         One \div 2)]

(***************************************************************************)
(* User energy functions umat(stretches) -> (W_a, W_ab) at one batch       *)
(* point, with symmetric W_ab.                                             *)
(*   Linear    W = l1 + l2 + l3                                            *)
(*   Quadratic W = sum (l_a - 1)^2 / 2                                     *)
(*   Coupled   W = (l1 + l2 + l3)^2 / 2                                    *)
(***************************************************************************)
PSUmatKinds == {"Linear", "Quadratic", "Coupled"}

psumat(kind, l) ==
    CASE kind = "Linear" ->
           [W_a |-> <<One, One, One>>,
            W_ab |-> <<<<0, 0, 0>>, <<0, 0, 0>>, <<0, 0, 0>>>>]
      [] kind = "Quadratic" ->
           [W_a |-> <<FSub(l[1], One), FSub(l[2], One), FSub(l[3], One)>>,
            W_ab |-> <<<<One, 0, 0>>, <<0, One, 0>>, <<0, 0, One>>>>]
      [] kind = "Coupled" ->
           Bind(FAdd(FAdd(l[1], l[2]), l[3]), LAMBDA t :
               [W_a |-> <<t, t, t>>,
                W_ab |-> <<<<One, One, One>>, <<One, One, One>>, <<One, One, One>>>>])

\* __init__: self.umat = umat; self.b = 0; self.tol = tol
PrincipalStretchBased(kind, tol) ==
    [umat |-> kind, b |-> 0, tol |-> tol,
     stretches |-> Unset, bases |-> Unset, W_a |-> Unset, W_ab |-> Unset]

\* np.all(b == self.b)
PrincipalStretchBased_guard(self, b) ==
    \A p \in Points : \A ij \in Idx2 : b[p][ij] = self.b

\* update: stretches[a][p], bases[a][p], W_a[a][p], W_ab[a][c][p].
\* self.b is not assigned.
PrincipalStretchBased_update(self, b) ==
    IF PrincipalStretchBased_guard(self, b)
    THEN [self |-> self, ran |-> FALSE]
    ELSE Bind(Eager([p \in Points |-> eigh(b[p])]), LAMBDA e :
         Bind(Eager([p \in Points |-> Eager([a \in 1..3 |-> FSqrt(e[p].wb[a])])]),
              LAMBDA l :
         Bind(Eager([p \in Points |-> psumat(self.umat, l[p])]), LAMBDA W :
             [self |-> [self EXCEPT
                  !.stretches = Eager([a \in 1..3 |-> Eager([p \in Points |-> l[p][a]])]),
                  !.bases = Eager([a \in 1..3 |->
                               Eager([p \in Points |-> Eager(Basis(e[p].axis[a]))])]),
                  !.W_a = Eager([a \in 1..3 |-> Eager([p \in Points |-> W[p].W_a[a]])]),
                  !.W_ab = Eager([a \in 1..3 |-> Eager([c \in 1..3 |->
                               Eager([p \in Points |-> W[p].W_ab[a][c]])])])],
              ran |-> TRUE])))

\* stress(b) = sum over a of Wa * la * ma (np.sum over the list, in order)
PrincipalStretchBased_stress(self, b) ==
    Bind(PrincipalStretchBased_update(self, b), LAMBDA u :
        [self |-> u.self, ran |-> u.ran,
         err |-> u.self.stretches = Unset,
         ret |-> IF u.self.stretches = Unset THEN Unset
                 ELSE [p \in Points |-> [ij \in Idx2 |->
                        LET t(a) == FMul(FMul(u.self.W_a[a][p], u.self.stretches[a][p]),
                                         u.self.bases[a][p][ij])
                        IN  FAdd(FAdd(t(1), t(2)), t(3))]]])

(***************************************************************************)
(* PrincipalStretchBased.elasticity at one batch point p.  The double loop *)
(* over (a, b) is unrolled into steps k = 0..8 (a = k \div 3, b = k % 3,   *)
(* counted from 1 here).  la is a view of row a of self.stretches, so      *)
(* la[...] += tol writes into self.stretches; lb reads row b as it is at   *)
(* that moment.  A loop state holds                                        *)
(*   l     the stretches of the point (row a of self.stretches at p),      *)
(*   terms the contributions to Jc4 in the order they are accumulated,     *)
(*         each <<coefficient, "dya" | "G", a, b>>,                        *)
(*   dens  the denominators la**2 - lb**2 divided by, each <<a, b, la, lb, *)
(*         den>>.                                                          *)
(***************************************************************************)
\* la[abs(la - lb) < self.tol] += self.tol
Perturb(la, lb, tol) ==
    IF FLess(FAbs(FSub(la, lb)), tol) THEN FAdd(la, tol) ELSE la

RECURSIVE ElastLoop(_, _, _, _)
ElastLoop(s, p, k, st) ==
    IF k = 9 THEN st
    ELSE LET a == (k \div 3) + 1
             b == (k % 3) + 1
             Wa == s.W_a[a][p]
             Wb == s.W_a[b][p]
             Wab == s.W_ab[a][b][p]
             \* Jc4 -= Wa / la * dya(Ma, Ma), before the loop over b
             t0 == IF b = 1
                   THEN Append(st.terms, <<FNeg(FDiv(Wa, st.l[a])), "dya", a, a>>)
                   ELSE st.terms
             \* Jc4 += Wab * dya(Ma, Mb)
             t1 == Append(t0, <<Wab, "dya", a, b>>)
         IN  IF b = a
             THEN ElastLoop(s, p, k + 1, [st EXCEPT !.terms = t1])
             ELSE Bind(Perturb(st.l[a], st.l[b], s.tol), LAMBDA la :
                  Bind(st.l[b], LAMBDA lb :
                  Bind(FSub(FMul(la, la), FMul(lb, lb)), LAMBDA den :
                  Bind(FSub(FMul(Wa, la), FMul(Wb, lb)), LAMBDA num :
                      ElastLoop(s, p, k + 1,
                        [l |-> [st.l EXCEPT ![a] = la],
                         terms |-> Append(t1, <<FDiv(num, den), "G", a, b>>),
                         dens |-> Append(st.dens, <<a, b, la, lb, den>>)])))))

\* the tensor a term multiplies: dya(Ma, Mb), or Gab = cdya(Ma, Mb) + cdya(Mb, Ma)
TermTensor(s, p, t, q) ==
    LET Ma == s.bases[t[3]][p]
        Mb == s.bases[t[4]][p]
    IN  IF t[2] = "dya" THEN fdya(Ma, Mb)[q]
        ELSE FAdd(fcdya(Ma, Mb)[q], fcdya(Mb, Ma)[q])

RECURSIVE Accumulate(_, _, _, _, _, _)
Accumulate(s, p, terms, q, n, acc) ==
    IF n > Len(terms) THEN acc
    ELSE Accumulate(s, p, terms, q, n + 1,
                    FAdd(acc, FMul(terms[n][1], TermTensor(s, p, terms[n], q))))

\* elasticity(b): update, then the loops; returns the instance with the
\* stretches as the loops leave them
PrincipalStretchBased_elasticity(self, b) ==
    Bind(PrincipalStretchBased_update(self, b), LAMBDA u :
        IF u.self.stretches = Unset
        THEN [self |-> u.self, ran |-> u.ran, err |-> TRUE, ret |-> Unset,
              dens |-> <<>>]
        ELSE Bind(Eager([p \in Points |->
                     ElastLoop(u.self, p, 0,
                       [l |-> Eager([a \in 1..3 |-> u.self.stretches[a][p]]),
                        terms |-> <<>>, dens |-> <<>>])]), LAMBDA loop :
                 [self |-> [u.self EXCEPT !.stretches =
                             [a \in 1..3 |-> [p \in Points |-> loop[p].l[a]]]],
                  ran |-> u.ran,
                  err |-> FALSE,
                  ret |-> [p \in Points |-> [q \in Idx4 |->
                            Accumulate(u.self, p, loop[p].terms, q, 1, 0)]],
                  dens |-> [p \in Points |-> loop[p].dens]]))

(***************************************************************************)
(* The caller of one PrincipalStretchBased instance.                       *)
(***************************************************************************)
PSLogged(log, op, b, r, dens) ==
    [calls |-> log.calls + 1,
     updates |-> log.updates + (IF r.ran THEN 1 ELSE 0),
     op |-> op,
     arg |-> b,
     same |-> log.same /\ (log.calls = 0 \/ log.arg = b),
     err |-> r.err,
     ret |-> r.ret,
     dens |-> dens]

PSInit ==
    /\ ps \in {PrincipalStretchBased(k, t) : k \in PSUmatKinds, t \in Tols}
    /\ psLog = PSNoLog
    /\ ib = None /\ ibLog = NoLog
    /\ ms = None /\ msLog = MSNoLog
    /\ cp = None /\ cpLog = CPNoLog
    /\ cm = None /\ cmLog = None /\ lf = None /\ lfLog = None

PSStress ==
    /\ psLog.calls < MaxCalls
    /\ \E b \in PSBatches :
         \E r \in {PrincipalStretchBased_stress(ps, b)} :
             /\ ps' = r.self
             /\ psLog' = PSLogged(psLog, "stress", b, r, <<>>)
    /\ UNCHANGED <<ib, ibLog, ms, msLog, cp, cpLog, cm, cmLog, lf, lfLog>>

PSElasticity ==
    /\ psLog.calls < MaxCalls
    /\ \E b \in PSBatches :
         \E r \in {PrincipalStretchBased_elasticity(ps, b)} :
             /\ ps' = r.self
             /\ psLog' = PSLogged(psLog, "elasticity", b, r, r.dens)
    /\ UNCHANGED <<ib, ibLog, ms, msLog, cp, cpLog, cm, cmLog, lf, lfLog>>

PSNext == PSStress \/ PSElasticity

SpecPS == PSInit /\ [][PSNext]_vars

(***************************************************************************)
(* class MaterialStrain                                                    *)
(*                                                                         *)
(* A descriptor x = [dxdX, statevars] holds the deformation gradient, a    *)
(* dim x dim tensor (a function on (1..dim) \X (1..dim)), and the flat     *)
(* state vector, a sequence.  The trailing batch axes are carried along    *)
(* unchanged by every operation of this class and are left out.  A history *)
(* tensor is [shape |-> its shape, data |-> its entries in row-major       *)
(* order].  Components are exact integers; the deformation gradients are   *)
(* chosen with an integral symmetric part.                                 *)
(***************************************************************************)
\* largest dim of a MaterialStrain instance
MaxDim == 3

MIdx(d) == 1..d
MIdx2(d) == MIdx(d) \X MIdx(d)
MIdx4(d) == MIdx(d) \X MIdx(d) \X MIdx(d) \X MIdx(d)

RECURSIVE Prod(_)
Prod(shape) == IF shape = <<>> THEN 1 ELSE Head(shape) * Prod(Tail(shape))

RECURSIVE Sum(_)
Sum(sq) == IF sq = <<>> THEN 0 ELSE Head(sq) + Sum(Tail(sq))

\* np.cumsum
cumsum(sq) == [k \in 1..Len(sq) |-> Sum(SubSeq(sq, 1, k))]

Min(a, b) == IF a < b THEN a ELSE b

\* the slice v[i:j] of a sequence (0-based, clipped to the sequence)
Slice(v, i, j) == SubSeq(v, Min(i, Len(v)) + 1, Min(j, Len(v)))

\* np.split(v, indices): the slices between consecutive indices, from 0 and
\* to the end
split(v, indices) ==
    [k \in 1..(Len(indices) + 1) |->
        IF k = 1 THEN Slice(v, 0, indices[1])
        ELSE IF k = Len(indices) + 1 THEN Slice(v, indices[Len(indices)], Len(v))
        ELSE Slice(v, indices[k - 1], indices[k])]

\* A.reshape(shape) of flat data: an error unless the sizes agree
reshape(data, shape) ==
    IF Len(data) = Prod(shape) THEN [err |-> FALSE, shape |-> shape, data |-> data]
    ELSE [err |-> TRUE, shape |-> shape, data |-> <<>>]

\* ravel: the entries of a tensor in row-major order
ravel(sv) == sv.data

\* a dim x dim tensor from its row-major entries, and back
Unflatten(d, data) == [ij \in MIdx2(d) |-> data[(ij[1] - 1) * d + ij[2]]]
Flatten(d, A) == [k \in 1..(d * d) |-> A[((k - 1) \div d) + 1, ((k - 1) % d) + 1]]

midentity(d) == [ij \in MIdx2(d) |-> IF ij[1] = ij[2] THEN 1 ELSE 0]
mtrace(d, A) == Sum([k \in 1..d |-> A[k, k]])

\* sym(A) = (A + transpose(A)) / 2; the tensors of the model keep
\* A + transpose(A) even
sym(d, A) == [ij \in MIdx2(d) |-> (A[ij[1], ij[2]] + A[ij[2], ij[1]]) \div 2]

\* a shape given as an int n stands for (n,)
ShapeOptions == {<<<<0>>>>, <<<<1>>, <<2>>>>, <<<<2, 1>>>>}

(***************************************************************************)
(* User material functions material(dstrain, strain_old, stress_old,       *)
(* statevars_old, **kwargs) -> (dsde, stress, statevars).                  *)
(*   linear_elastic  the function of the class docstring                   *)
(*   hardening       accumulates tr(dstrain) in every history entry; its   *)
(*                   tangent 2 I(x)I-crossed (i,k)(j,l) is not             *)
(*                   minor-symmetric                                       *)
(*   skew            a tangent without any symmetry                        *)
(***************************************************************************)
MaterialKinds == {"linear_elastic", "hardening", "skew"}

\* linear_elastic without the volumetric part of the stress change
material_shear_only(kind, d, dstrain, strain_old, stress_old, statevars_old, kwargs) ==
    LET I == midentity(d)
    IN  [dsde |-> [q \in MIdx4(d) |->
                     kwargs.mu * (I[q[1], q[3]] * I[q[2], q[4]]
                                + I[q[1], q[4]] * I[q[2], q[3]])
                   + kwargs.lmbda * I[q[1], q[2]] * I[q[3], q[4]]],
         stress |-> [ij \in MIdx2(d) |-> stress_old[ij] + 2 * kwargs.mu * dstrain[ij]],
         statevars |-> statevars_old]

material(kind, d, dstrain, strain_old, stress_old, statevars_old, kwargs) ==
    LET I == midentity(d)
    IN  CASE kind = "linear_elastic" ->
              [dsde |-> [q \in MIdx4(d) |->
                           kwargs.mu * (I[q[1], q[3]] * I[q[2], q[4]]
                                      + I[q[1], q[4]] * I[q[2], q[3]])
                         + kwargs.lmbda * I[q[1], q[2]] * I[q[3], q[4]]],
               stress |-> [ij \in MIdx2(d) |->
                             stress_old[ij] + 2 * kwargs.mu * dstrain[ij]
                           + kwargs.lmbda * mtrace(d, dstrain) * I[ij]],
               statevars |-> statevars_old]
          [] kind = "hardening" ->
              [dsde |-> [q \in MIdx4(d) |-> 2 * I[q[1], q[3]] * I[q[2], q[4]]],
               stress |-> [ij \in MIdx2(d) |-> stress_old[ij] + 2 * dstrain[ij]],
               statevars |-> [k \in 1..Len(statevars_old) |->
                    [statevars_old[k] EXCEPT !.data =
                        [n \in 1..Len(statevars_old[k].data) |->
                            statevars_old[k].data[n] + mtrace(d, dstrain) + n]]]]
          [] kind = "skew" ->
              [dsde |-> [q \in MIdx4(d) |-> q[1] + 2 * q[2] + 4 * q[3] + 8 * q[4]
                                            + strain_old[q[1], q[2]]],
               stress |-> [ij \in MIdx2(d) |-> stress_old[ij] + dstrain[ij] + ij[1]],
               statevars |-> statevars_old]

\* np.zeros(n)
zeros(n) == [k \in 1..n |-> 0]

\* __init__
MaterialStrain(kind, d, statevars, kwargs) ==
    LET size == [k \in 1..Len(statevars) |-> Prod(statevars[k])]
    IN  [material |-> kind,
         statevars_shape |-> statevars,
         statevars_size |-> size,
         statevars_offsets |-> cumsum(size),
         nstatevars |-> Sum(size),
         kwargs |-> kwargs @@ [tangent |-> None],
         dim |-> d,
         x |-> [dxdX |-> midentity(d), statevars |-> zeros(2 * d * d + Sum(size))]]

\* extract with the stress slice cut at its declared end instead of running
\* to the end of the vector, and short slices padded
extract_lenient(self, x) ==
    LET d == self.dim
        total == 2 * d * d + self.nstatevars
        v == IF Len(x.statevars) >= total THEN SubSeq(x.statevars, 1, total)
             ELSE x.statevars \o [k \in 1..(total - Len(x.statevars)) |-> 0]
        off == <<0>> \o self.statevars_offsets
        old == Slice(v, self.nstatevars, self.nstatevars + d * d)
        sig == Slice(v, self.nstatevars + d * d, total)
        strain == sym(d, [ij \in MIdx2(d) |-> x.dxdX[ij] - midentity(d)[ij]])
    IN  [err |-> FALSE,
         strain_old |-> Unflatten(d, old),
         dstrain |-> [ij \in MIdx2(d) |-> strain[ij] - Unflatten(d, old)[ij]],
         stress_old |-> Unflatten(d, sig),
         statevars_old |-> [k \in 1..Len(self.statevars_shape) |->
               [shape |-> self.statevars_shape[k],
                data |-> Slice(v, off[k], off[k + 1])]]]

\* extract(x): err is the ValueError of a reshape whose sizes do not agree
extract(self, x) ==
    Bind(self.dim, LAMBDA d :
    Bind(sym(d, [ij \in MIdx2(d) |-> x.dxdX[ij] - midentity(d)[ij]]), LAMBDA strain :
    Bind(split(x.statevars, self.statevars_offsets \o <<self.nstatevars + d * d>>),
         LAMBDA statevars_all :
    Bind(Len(statevars_all), LAMBDA n :
    Bind([k \in 1..Len(self.statevars_shape) |->
             reshape(statevars_all[k], self.statevars_shape[k])], LAMBDA statevars_old :
    Bind(reshape(statevars_all[n - 1], <<d, d>>), LAMBDA strain_old :
    Bind(reshape(statevars_all[n], <<d, d>>), LAMBDA stress_old :
        IF \/ \E k \in 1..Len(statevars_old) : statevars_old[k].err
           \/ strain_old.err
           \/ stress_old.err
        THEN [err |-> TRUE]
        ELSE [err |-> FALSE,
              strain_old |-> Unflatten(d, strain_old.data),
              dstrain |-> [ij \in MIdx2(d) |->
                              strain[ij] - Unflatten(d, strain_old.data)[ij]],
              stress_old |-> Unflatten(d, stress_old.data),
              statevars_old |-> [k \in 1..Len(statevars_old) |->
                    [shape |-> statevars_old[k].shape,
                     data |-> statevars_old[k].data]]])))))))

RECURSIVE Concat(_)
Concat(sqs) == IF sqs = <<>> THEN <<>> ELSE Head(sqs) \o Concat(Tail(sqs))

\* gradient with the new stress packed ahead of the new strain
gradient_swapped(self, x) ==
    LET e == extract(self, x)
        d == self.dim
    IN  IF e.err
        THEN [self |-> self, err |-> TRUE, invoked |-> FALSE, ret |-> Unset, user |-> Unset]
        ELSE LET kw == [self.kwargs EXCEPT !.tangent = FALSE]
                 m == material(self.material, d, e.dstrain, e.strain_old,
                               e.stress_old, e.statevars_old, kw)
                 strain_new_1d == Flatten(d, [ij \in MIdx2(d) |->
                                        e.strain_old[ij] + e.dstrain[ij]])
                 statevars_new ==
                     Concat([k \in 1..Len(m.statevars) |-> ravel(m.statevars[k])])
                         \o Flatten(d, m.stress) \o strain_new_1d
             IN  [self |-> [self EXCEPT !.kwargs = kw],
                  err |-> FALSE, invoked |-> TRUE,
                  ret |-> [stress |-> m.stress, statevars |-> statevars_new],
                  user |-> m]

\* gradient(x): [stress_new, statevars_new].  invoked: the user material
\* function was called.  user: what it returned.
gradient(self, x) ==
    Bind(extract(self, x), LAMBDA e :
        IF e.err
        THEN [self |-> self, err |-> TRUE, invoked |-> FALSE, ret |-> Unset, user |-> Unset]
        ELSE Bind([self.kwargs EXCEPT !.tangent = FALSE], LAMBDA kw :
             Bind(material(self.material, self.dim, e.dstrain, e.strain_old,
                           e.stress_old, e.statevars_old, kw), LAMBDA m :
                 LET d == self.dim
                     strain_new_1d == Flatten(d, [ij \in MIdx2(d) |->
                                            e.strain_old[ij] + e.dstrain[ij]])
                     stress_new_1d == Flatten(d, m.stress)
                     statevars_new ==
                         Concat([k \in 1..Len(m.statevars) |-> ravel(m.statevars[k])])
                             \o strain_new_1d \o stress_new_1d
                 IN  [self |-> [self EXCEPT !.kwargs = kw],
                      err |-> FALSE, invoked |-> TRUE,
                      ret |-> [stress |-> m.stress, statevars |-> statevars_new],
                      user |-> m])))

\* np.einsum of dsde with the index pairs swapped as named
SwapFirst(q) == <<q[2], q[1], q[3], q[4]>>
SwapSecond(q) == <<q[1], q[2], q[4], q[3]>>
SwapBoth(q) == <<q[2], q[1], q[4], q[3]>>

\* hessian averaging over the swap of the first index pair only
hessian_first(self, x) ==
    LET e == extract(self, x)
        d == self.dim
    IN  IF e.err
        THEN [self |-> self, err |-> TRUE, invoked |-> FALSE, ret |-> Unset, user |-> Unset]
        ELSE LET kw == [self.kwargs EXCEPT !.tangent = TRUE]
                 m == material(self.material, d, e.dstrain, e.strain_old,
                               e.stress_old, e.statevars_old, kw)
             IN  [self |-> [self EXCEPT !.kwargs = kw],
                  err |-> FALSE, invoked |-> TRUE,
                  ret |-> [num |-> [q \in MIdx4(d) |->
                                      2 * m.dsde[q] + 2 * m.dsde[SwapFirst(q)]],
                           den |-> 4],
                  user |-> m]

\* hessian(x): [dsde], dsde the user tangent averaged with its three
\* minor-index-swapped variants.  The quotient by 4 is kept exact: the
\* tensor returned is num / den, entry by entry.
hessian(self, x) ==
    Bind(extract(self, x), LAMBDA e :
        IF e.err
        THEN [self |-> self, err |-> TRUE, invoked |-> FALSE, ret |-> Unset, user |-> Unset]
        ELSE Bind([self.kwargs EXCEPT !.tangent = TRUE], LAMBDA kw :
             Bind(material(self.material, self.dim, e.dstrain, e.strain_old,
                           e.stress_old, e.statevars_old, kw), LAMBDA m :
             Bind(m.dsde, LAMBDA dsde :
                 [self |-> [self EXCEPT !.kwargs = kw],
                  err |-> FALSE, invoked |-> TRUE,
                  ret |-> [num |-> [q \in MIdx4(self.dim) |->
                                      dsde[q] + dsde[SwapFirst(q)]
                                    + dsde[SwapSecond(q)] + dsde[SwapBoth(q)]],
                           den |-> 4],
                  user |-> m]))))

(***************************************************************************)
(* The caller of one MaterialStrain instance: the time-stepping code.  It  *)
(* starts from the zero state vector of the instance, passes the state     *)
(* vector that the last gradient returned to the next call (ms.sv), and    *)
(* stops at the first error.  It may also pass a state vector of another   *)
(* length than the instance declares.                                      *)
(***************************************************************************)
\* the deformation gradient with small strain diag(1, 0, ..., 0)
Uniaxial(d) == [ij \in MIdx2(d) |-> midentity(d)[ij] + (IF ij = <<1, 1>> THEN 1 ELSE 0)]

\* deformation gradients of dimension d: undeformed, uniaxial, and a
\* general one
MFVals(d) ==
    {midentity(d),
     [ij \in MIdx2(d) |-> midentity(d)[ij] + (IF ij = <<1, 1>> THEN 1 ELSE 0)],
     [ij \in MIdx2(d) |-> midentity(d)[ij]
                          + (IF ij[1] < ij[2] THEN 2 ELSE IF ij[1] = ij[2] THEN 3 ELSE 0)]}

Kwargs == [lmbda |-> 2, mu |-> 1]

MSLogged(log, op, x, r) ==
    [calls |-> log.calls + 1,
     invoked |-> log.invoked + (IF r.invoked THEN 1 ELSE 0),
     reached |-> r.invoked,
     steps |-> log.steps + (IF op = "gradient" /\ ~r.err THEN 1 ELSE 0),
     op |-> op, dxdX |-> x.dxdX, sv |-> x.statevars,
     err |-> r.err, ret |-> r.ret, user |-> r.user]

MSInit ==
    /\ \E k \in MaterialKinds, d \in 1..MaxDim, sh \in ShapeOptions :
         LET self == MaterialStrain(k, d, sh, Kwargs)
         IN  ms = [self |-> self, sv |-> self.x.statevars]
    /\ msLog = MSNoLog
    /\ ib = None /\ ibLog = NoLog
    /\ ps = None /\ psLog = PSNoLog
    /\ cp = None /\ cpLog = CPNoLog
    /\ cm = None /\ cmLog = None /\ lf = None /\ lfLog = None

MSGradient ==
    /\ msLog.calls < MaxCalls /\ ~msLog.err
    /\ \E F \in MFVals(ms.self.dim) :
         \E r \in {gradient(ms.self, [dxdX |-> F, statevars |-> ms.sv])} :
             /\ ms' = [self |-> r.self,
                       sv |-> IF r.err THEN ms.sv ELSE r.ret.statevars]
             /\ msLog' = MSLogged(msLog, "gradient",
                                  [dxdX |-> F, statevars |-> ms.sv], r)
    /\ UNCHANGED <<ib, ibLog, ps, psLog, cp, cpLog, cm, cmLog, lf, lfLog>>

MSHessian ==
    /\ msLog.calls < MaxCalls /\ ~msLog.err
    /\ \E F \in MFVals(ms.self.dim) :
         \E r \in {hessian(ms.self, [dxdX |-> F, statevars |-> ms.sv])} :
             /\ ms' = [ms EXCEPT !.self = r.self]
             /\ msLog' = MSLogged(msLog, "hessian",
                                  [dxdX |-> F, statevars |-> ms.sv], r)
    /\ UNCHANGED <<ib, ibLog, ps, psLog, cp, cpLog, cm, cmLog, lf, lfLog>>

\* the state vector cut or padded to length n
Resized(v, n) == IF n <= Len(v) THEN SubSeq(v, 1, n) ELSE v \o zeros(n - Len(v))

\* a call with a state vector whose length differs from the declared one
MSMisaligned ==
    /\ msLog.calls < MaxCalls /\ ~msLog.err
    /\ \E F \in MFVals(ms.self.dim), n \in 0..(Len(ms.sv) + 2),
          op \in {"extract", "gradient", "hessian"} :
         /\ n # 2 * ms.self.dim * ms.self.dim + ms.self.nstatevars
         /\ \E x \in {[dxdX |-> F, statevars |-> Resized(ms.sv, n)]} :
            \E r \in {CASE op = "gradient" -> gradient(ms.self, x)
                        [] op = "hessian" -> hessian(ms.self, x)
                        [] op = "extract" ->
                             Bind(extract(ms.self, x), LAMBDA e :
                                 [self |-> ms.self, err |-> e.err, invoked |-> FALSE,
                                  ret |-> IF e.err THEN Unset ELSE <<e>>,
                                  user |-> Unset])} :
                /\ ms' = [ms EXCEPT !.self = r.self]
                /\ msLog' = MSLogged(msLog, op, x, r)
    /\ UNCHANGED <<ib, ibLog, ps, psLog, cp, cpLog, cm, cmLog, lf, lfLog>>

MSNext == MSGradient \/ MSHessian \/ MSMisaligned

SpecMS == MSInit /\ [][MSNext]_vars

(***************************************************************************)
(* class Material and class Composite                                      *)
(*                                                                         *)
(* A member of a Composite is a Material built from two user callables, or *)
(* an InvariantBased instance; all take the batched tensor b.              *)
(***************************************************************************)
\* largest number of materials of a Composite
MaxMembers == 3

\* user callables of class Material
\*   double  stress(b) = 2 b,   elasticity(b) = dya(b, b)
\*   square  stress(b) = b.b,   elasticity(b) = 2 cdya(b, I)
Material(kind) == [cls |-> "Material", kind |-> kind]

Material_stress(self, b) ==
    [self |-> self, err |-> FALSE,
     ret |-> [p \in Points |->
               IF self.kind = "double" THEN [ij \in Idx2 |-> 2 * b[p][ij]]
               ELSE dot(b[p], b[p])]]

Material_elasticity(self, b) ==
    [self |-> self, err |-> FALSE,
     ret |-> [p \in Points |->
               IF self.kind = "double" THEN dya(b[p], b[p])
               ELSE cdya2(b[p], identity)]]

Member(kind) ==
    IF kind \in UmatKinds THEN [cls |-> "InvariantBased", obj |-> InvariantBased(kind)]
    ELSE Material(kind)

MemberKinds == {"double", "square", "MooneyRivlin"}

\* m.stress(*args) / m.elasticity(*args, **kwargs) of one member
MemberCall(m, op, b) ==
    IF m.cls = "Material"
    THEN (IF op = "stress" THEN Material_stress(m, b) ELSE Material_elasticity(m, b))
    ELSE Bind(IF op = "stress" THEN InvariantBased_stress(m.obj, b)
              ELSE InvariantBased_elasticity(m.obj, b), LAMBDA r :
             [self |-> [m EXCEPT !.obj = r.self], err |-> r.err, ret |-> r.ret])

\* __init__: self.materials = args
Composite(materials) == [materials |-> materials]

\* the list comprehension [m.op(...) for m in self.materials]: the members
\* are called in list order; an exception of a member ends it
RECURSIVE Comprehension(_, _, _, _, _)
Comprehension(ms_, op, b, k, acc) ==
    IF k > Len(ms_) THEN [materials |-> ms_, err |-> FALSE, vals |-> acc]
    ELSE Bind(MemberCall(ms_[k], op, b), LAMBDA r :
             IF r.err THEN [materials |-> [ms_ EXCEPT ![k] = r.self],
                            err |-> TRUE, vals |-> <<>>]
             ELSE Comprehension([ms_ EXCEPT ![k] = r.self], op, b, k + 1,
                                Append(acc, Eager([p \in Points |-> Eager(r.ret[p])]))))

\* np.sum(vals, 0): the arrays of the list added up entry by entry
RECURSIVE AddUp(_, _, _, _)
AddUp(vals, p, q, k) ==
    IF k > Len(vals) THEN 0 ELSE vals[k][p][q] + AddUp(vals, p, q, k + 1)

\* the first array of the list instead of the sum
npsum_first(vals, D) == [p \in Points |-> [q \in D |-> vals[1][p][q]]]

npsum(vals, D) == Eager([p \in Points |-> Eager([q \in D |-> AddUp(vals, p, q, 1)])])

Composite_call(self, op, b, D) ==
    Bind(Comprehension(self.materials, op, b, 1, <<>>), LAMBDA c :
        [self |-> [self EXCEPT !.materials = c.materials],
         err |-> c.err,
         ret |-> IF c.err THEN Unset ELSE npsum(c.vals, D)])

Composite_stress(self, b) == Composite_call(self, "stress", b, Idx2)

Composite_elasticity(self, b) == Composite_call(self, "elasticity", b, Idx4)

(***************************************************************************)
(* The caller of one Composite.                                            *)
(***************************************************************************)
CPBatches == {Batch(Zero2, Zero2), Batch(SymB, diag(2, 2, 2))}

RECURSIVE SeqsUpTo(_, _)
SeqsUpTo(S, n) ==
    IF n = 0 THEN {<<>>}
    ELSE LET shorter == SeqsUpTo(S, n - 1)
         IN  shorter \cup {Append(sq, x) : sq \in shorter, x \in S}

CPLogged(log, op, b, r, before) ==
    [calls |-> log.calls + 1, op |-> op, arg |-> b, err |-> r.err, ret |-> r.ret,
     before |-> before]

CPInit ==
    /\ \E kinds \in SeqsUpTo(MemberKinds, MaxMembers) :
         /\ kinds # <<>>
         /\ cp = Composite([k \in 1..Len(kinds) |-> Member(kinds[k])])
    /\ cpLog = CPNoLog
    /\ cm = None /\ cmLog = None /\ lf = None /\ lfLog = None
    /\ ib = None /\ ibLog = NoLog
    /\ ps = None /\ psLog = PSNoLog
    /\ ms = None /\ msLog = MSNoLog

CPStress ==
    /\ cpLog.calls < MaxCalls
    /\ \E b \in CPBatches :
         \E r \in {Composite_stress(cp, b)} :
             /\ cp' = r.self
             /\ cpLog' = CPLogged(cpLog, "stress", b, r, cp)
    /\ UNCHANGED <<ib, ibLog, ps, psLog, ms, msLog, cm, cmLog, lf, lfLog>>

CPElasticity ==
    /\ cpLog.calls < MaxCalls
    /\ \E b \in CPBatches :
         \E r \in {Composite_elasticity(cp, b)} :
             /\ cp' = r.self
             /\ cpLog' = CPLogged(cpLog, "elasticity", b, r, cp)
    /\ UNCHANGED <<ib, ibLog, ps, psLog, ms, msLog, cm, cmLog, lf, lfLog>>

CPNext == CPStress \/ CPElasticity

SpecCP == CPInit /\ [][CPNext]_vars

(***************************************************************************)
(* class ConstitutiveMaterial and class CompositeMaterial (_base.py)       *)
(*                                                                         *)
(* A Python dict is [keys |-> its keys in insertion order, val |-> the     *)
(* value of every key].  A material object is [self |-> a MaterialStrain   *)
(* instance, keys |-> the order of the keys of self.kwargs]: its dict is   *)
(* KwargsOf.  The two materials of a CompositeMaterial are the objects     *)
(* held in its list, so a change of a material is seen through the list.   *)
(* Before the two materials are merged, the list alone exists.             *)
(***************************************************************************)
\* number of trial vectors the least-squares solver evaluates in one fit
MaxTrials == 2

Dict(keys, val) == [keys |-> keys, val |-> val]

KeySet(keys) == {keys[i] : i \in 1..Len(keys)}

\* the position of key k in a dict
IndexOf(keys, k) == CHOOSE i \in 1..Len(keys) : keys[i] = k

\* the keys of {**d1, **d2}: those of d1, then the new ones of d2
RECURSIVE MergeKeys(_, _)
MergeKeys(k1, k2) ==
    IF k2 = <<>> THEN k1
    ELSE MergeKeys(IF Head(k2) \in KeySet(k1) THEN k1 ELSE Append(k1, Head(k2)),
                   Tail(k2))

\* {**d1, **d2}: on a common key the value of d2
Merge(d1, d2) ==
    Bind(MergeKeys(d1.keys, d2.keys), LAMBDA ks :
        Dict(ks, [k \in KeySet(ks) |->
                    IF k \in KeySet(d2.keys) THEN d2.val[k] ELSE d1.val[k]]))

\* for key, value in zip(d.keys(), x): d[key] = value
ZipInto(d, x) ==
    Dict(d.keys, [k \in KeySet(d.keys) |->
                    IF IndexOf(d.keys, k) <= Len(x) THEN x[IndexOf(d.keys, k)]
                    ELSE d.val[k]])

\* list(d.values())
Values(d) == [i \in 1..Len(d.keys) |-> d.val[d.keys[i]]]

\* material.kwargs
KwargsOf(m) == Dict(m.keys, m.self.kwargs)

\* MaterialStrain(material=kind, dim=d, statevars=sh, **kw): the keyword
\* arguments in the order given, then "tangent"
MaterialObject(kind, d, sh, kw) ==
    [self |-> MaterialStrain(kind, d, sh, kw.val), keys |-> Append(kw.keys, "tangent")]

\* dim=3, the default of MaterialStrain.__init__
DefaultDim == 3

\* the declared history shapes of the two materials: the default (0,) for
\* both, two history tensors for both, or different ones
ShapePairs == {<<<<<<0>>>>, <<<<0>>>>>>,
               <<<<<<1>>, <<2>>>>, <<<<1>>, <<2>>>>>>,
               <<<<<<1>>, <<2>>>>, <<<<0>>>>>>}

\* the materials a CompositeMaterial is built from: the linear-elastic
\* material of the docstring, another one with its parameters given in the
\* other order, and a material with a parameter of another name
MaterialOptions(d, sh) ==
    [docstring |-> MaterialObject("linear_elastic", d, sh,
                       Dict(<<"mu", "lmbda">>, [mu |-> 1, lmbda |-> 2])),
     stiff |-> MaterialObject("linear_elastic", d, sh,
                       Dict(<<"lmbda", "mu">>, [lmbda |-> 3, mu |-> 4])),
     hardening |-> MaterialObject("hardening", d, sh, Dict(<<"H">>, [H |-> 5]))]

\* the pairs (material, other_material): with common parameter names in
\* both orders, and without
MaterialPairs == {<<"docstring", "stiff">>, <<"stiff", "docstring">>,
                  <<"docstring", "hardening">>, <<"hardening", "stiff">>}

\* CompositeMaterial.__init__ with the merge written the other way round
CompositeMaterial_later(material_, other_material) ==
    [materials |-> <<material_, other_material>>,
     kwargs |-> Merge(KwargsOf(material_), KwargsOf(other_material)),
     x |-> material_.self.x]

\* CompositeMaterial.__init__
CompositeMaterial(material_, other_material) ==
    [materials |-> <<material_, other_material>>,
     kwargs |-> Merge(KwargsOf(other_material), KwargsOf(material_)),
     x |-> material_.self.x]

\* [material.gradient(x) for material in self.materials], or hessian: the
\* results in order; a material that raises ends the comprehension
Evaluations(self, op, x) ==
    Bind(IF op = "gradient" THEN gradient(self.materials[1].self, x)
         ELSE hessian(self.materials[1].self, x), LAMBDA r1 :
        IF r1.err THEN <<r1>>
        ELSE Bind(IF op = "gradient" THEN gradient(self.materials[2].self, x)
                  ELSE hessian(self.materials[2].self, x), LAMBDA r2 : <<r1, r2>>))

\* the materials after the comprehension
Evaluated(self, rs) ==
    [self EXCEPT !.materials =
        [k \in 1..2 |-> IF k <= Len(rs)
                        THEN [self.materials[k] EXCEPT !.self = rs[k].self]
                        ELSE self.materials[k]]]

\* np.sum([a, b], axis=0) of two tensors with the same index set
Plus(a, b) == [ij \in DOMAIN a |-> a[ij] + b[ij]]

\* gradient with the state variables of the last material
CompositeMaterial_gradient_last(self, x) ==
    Bind(Evaluations(self, "gradient", x), LAMBDA rs :
        IF rs[Len(rs)].err
        THEN [self |-> Evaluated(self, rs), err |-> TRUE, ret |-> Unset, used |-> <<>>]
        ELSE [self |-> Evaluated(self, rs), err |-> FALSE,
              ret |-> <<Plus(rs[1].ret.stress, rs[2].ret.stress), rs[2].ret.statevars>>,
              used |-> <<rs[1].self.kwargs, rs[2].self.kwargs>>])

\* CompositeMaterial.gradient(x), x = [dxdX, statevars]: nfields = 1.
\* used: the keyword arguments each material called its function with
CompositeMaterial_gradient(self, x) ==
    Bind(Evaluations(self, "gradient", x), LAMBDA rs :
        IF rs[Len(rs)].err
        THEN [self |-> Evaluated(self, rs), err |-> TRUE, ret |-> Unset, used |-> <<>>]
        ELSE [self |-> Evaluated(self, rs), err |-> FALSE,
              ret |-> <<Plus(rs[1].ret.stress, rs[2].ret.stress), rs[1].ret.statevars>>,
              used |-> <<rs[1].self.kwargs, rs[2].self.kwargs>>])

\* CompositeMaterial.hessian(x): the sum of two quotients by 4 is the
\* quotient of the sum of the numerators
CompositeMaterial_hessian(self, x) ==
    Bind(Evaluations(self, "hessian", x), LAMBDA rs :
        IF rs[Len(rs)].err
        THEN [self |-> Evaluated(self, rs), err |-> TRUE, ret |-> Unset, used |-> <<>>]
        ELSE [self |-> Evaluated(self, rs), err |-> FALSE,
              ret |-> <<[num |-> Plus(rs[1].ret.num, rs[2].ret.num), den |-> 4]>>,
              used |-> <<rs[1].self.kwargs, rs[2].self.kwargs>>])

(***************************************************************************)
(* ConstitutiveMaterial.optimize, called on the first material or on the   *)
(* CompositeMaterial.  scipy's least_squares is the caller of fun: it      *)
(* evaluates fun at x0 and then at trial vectors of its choice, and        *)
(* returns one of the vectors it evaluated as res.x.  The estimate res.dx  *)
(* (lines 211-217) reads the result only.                                  *)
(*   pc         "idle", "solving" (inside least_squares), "returned",      *)
(*              "raised" (fun raised)                                      *)
(*   target     the material optimize was called on                        *)
(*   before     its kwargs when optimize was called                        *)
(*   evaluated  the vectors fun was called with, in order                  *)
(*   umat, x    the copy and the vector res.x that optimize returned       *)
(***************************************************************************)
NoFit == [pc |-> "idle", target |-> None, before |-> Unset, evaluated |-> <<>>,
          umat |-> Unset, x |-> Unset]

\* op: the last call on the CompositeMaterial ("gradient", "hessian", or
\* "fun" of a running optimize); x: its argument; used: the keyword
\* arguments each material evaluated with; before: the CompositeMaterial as
\* it was when the call was made
CMNoLog == [calls |-> 0, op |-> None, x |-> Unset, err |-> FALSE, ret |-> Unset,
            used |-> <<>>, before |-> Unset]

Targets == {"first", "composite"}

\* self.kwargs of the material optimize was called on
TargetKwargs(c, target) ==
    IF target = "composite" THEN c.kwargs ELSE KwargsOf(c.materials[1])

\* the material with its kwargs replaced (the dict is updated in place)
WithKwargs(c, target, d) ==
    IF target = "composite" THEN [c EXCEPT !.kwargs = d]
    ELSE [c EXCEPT !.materials[1].self.kwargs = d.val]

\* self.view(...).evaluate(): the stress of the material at a load case,
\* from self.gradient at the initial state self.x[-1]
evaluate(c, target) ==
    Bind([dxdX |-> Uniaxial(c.materials[1].self.dim), statevars |-> c.x.statevars],
         LAMBDA X :
        IF target = "composite" THEN CompositeMaterial_gradient(c, X)
        ELSE Bind(gradient(c.materials[1].self, X), LAMBDA r :
                 [self |-> [c EXCEPT !.materials[1].self = r.self],
                  err |-> r.err,
                  ret |-> IF r.err THEN Unset ELSE <<r.ret.stress, r.ret.statevars>>,
                  used |-> IF r.err THEN <<>> ELSE <<r.self.kwargs>>]))

\* fun(x) of optimize: update the material parameters, then evaluate
fun(c, target, x) ==
    evaluate(WithKwargs(c, target, ZipInto(TargetKwargs(c, target), x)), target)

\* values a trial vector holds
ParamVals == {7}

\* the vectors least_squares may pass to fun: x0 first, then the last
\* vector with one parameter varied (the entry of the "tangent" flag is
\* left as it is in x0)
TrialVectors(fit) ==
    IF fit.evaluated = <<>> THEN {Values(fit.before)}
    ELSE {[fit.evaluated[Len(fit.evaluated)] EXCEPT ![i] = v] :
             i \in {j \in 1..Len(fit.before.keys) : fit.before.keys[j] # "tangent"},
             v \in ParamVals}

\* umat = copy(self); umat.kwargs[key] = value for zip(self.kwargs.keys(), res.x)
Fitted(c, target, x) ==
    Bind(WithKwargs(c, target, ZipInto(TargetKwargs(c, target), x)), LAMBDA u :
        IF target = "composite" THEN u ELSE u.materials[1])

CMLogged(log, op, x, r, before) ==
    [calls |-> log.calls + 1, op |-> op, x |-> x, err |-> r.err, ret |-> r.ret,
     used |-> r.used, before |-> before]

CMInit ==
    /\ \E sh \in ShapePairs, mp \in MaterialPairs :
          cm = [composed |-> FALSE,
                obj |-> [materials |-> <<MaterialOptions(DefaultDim, sh[1])[mp[1]],
                                         MaterialOptions(DefaultDim, sh[2])[mp[2]]>>,
                         kwargs |-> Unset, x |-> Unset],
                sv |-> Unset, fit |-> NoFit]
    /\ cmLog = CMNoLog
    /\ ib = None /\ ibLog = NoLog
    /\ ps = None /\ psLog = PSNoLog
    /\ ms = None /\ msLog = MSNoLog
    /\ cp = None /\ cpLog = CPNoLog
    /\ lf = None /\ lfLog = None

\* material & other_material (__and__): the CompositeMaterial is built
CMCompose ==
    /\ ~cm.composed
    /\ \E c \in {CompositeMaterial(cm.obj.materials[1], cm.obj.materials[2])} :
          cm' = [cm EXCEPT !.composed = TRUE, !.obj = c, !.sv = c.x.statevars]
    /\ UNCHANGED <<cmLog, ib, ibLog, ps, psLog, ms, msLog, cp, cpLog, lf, lfLog>>

\* umat.gradient([F, statevars]) by the time-stepping code, which passes the
\* state vector returned to the next call
CMGradient ==
    /\ cm.composed /\ cm.fit.pc # "solving" /\ cmLog.calls < MaxCalls /\ ~cmLog.err
    /\ \E F \in MFVals(DefaultDim) \ {midentity(DefaultDim)} :
       \E x \in {[dxdX |-> F, statevars |-> cm.sv]} :
       \E r \in {CompositeMaterial_gradient(cm.obj, x)} :
          /\ cm' = [cm EXCEPT !.obj = r.self,
                              !.sv = IF r.err THEN cm.sv ELSE r.ret[2]]
          /\ cmLog' = CMLogged(cmLog, "gradient", x, r, cm.obj)
    /\ UNCHANGED <<ib, ibLog, ps, psLog, ms, msLog, cp, cpLog, lf, lfLog>>

CMHessian ==
    /\ cm.composed /\ cm.fit.pc # "solving" /\ cmLog.calls < MaxCalls /\ ~cmLog.err
    /\ \E F \in {Uniaxial(DefaultDim)} :
       \E x \in {[dxdX |-> F, statevars |-> cm.sv]} :
       \E r \in {CompositeMaterial_hessian(cm.obj, x)} :
          /\ cm' = [cm EXCEPT !.obj = r.self]
          /\ cmLog' = CMLogged(cmLog, "hessian", x, r, cm.obj)
    /\ UNCHANGED <<ib, ibLog, ps, psLog, ms, msLog, cp, cpLog, lf, lfLog>>

\* optimize is called, before the material is used in a simulation:
\* least_squares(fun, x0=list(self.kwargs.values()))
CMOptimize ==
    /\ cm.composed /\ cm.fit.pc = "idle" /\ cmLog.calls = 0
    /\ \E target \in Targets :
          cm' = [cm EXCEPT !.fit = [NoFit EXCEPT !.pc = "solving",
                                                 !.target = target,
                                                 !.before = TargetKwargs(cm.obj, target)]]
    /\ UNCHANGED <<cmLog, ib, ibLog, ps, psLog, ms, msLog, cp, cpLog, lf, lfLog>>

\* least_squares calls fun(x)
CMFun ==
    /\ cm.fit.pc = "solving" /\ Len(cm.fit.evaluated) < MaxTrials
    /\ \E x \in TrialVectors(cm.fit) :
       \E r \in {fun(cm.obj, cm.fit.target, x)} :
          /\ cm' = [cm EXCEPT !.obj = r.self,
                              !.fit.evaluated = Append(@, x),
                              !.fit.pc = IF r.err THEN "raised" ELSE "solving"]
          /\ cmLog' = [CMLogged(cmLog, "fun", x, r, cm.obj) EXCEPT !.calls = cmLog.calls]
    /\ UNCHANGED <<ib, ibLog, ps, psLog, ms, msLog, cp, cpLog, lf, lfLog>>

\* least_squares returns res; optimize returns (umat, res)
CMReturn ==
    /\ cm.fit.pc = "solving" /\ cm.fit.evaluated # <<>>
    /\ \E k \in 1..Len(cm.fit.evaluated) :
          cm' = [cm EXCEPT !.fit.pc = "returned",
                           !.fit.x = cm.fit.evaluated[k],
                           !.fit.umat = Fitted(cm.obj, cm.fit.target, cm.fit.evaluated[k])]
    /\ UNCHANGED <<cmLog, ib, ibLog, ps, psLog, ms, msLog, cp, cpLog, lf, lfLog>>

CMNext == CMCompose \/ CMGradient \/ CMHessian \/ CMOptimize \/ CMFun \/ CMReturn

SpecCM == CMInit /\ [][CMNext]_vars

(***************************************************************************)
(* LinearForm.integrate (assembly/expression/_linear.py).                  *)
(*                                                                         *)
(* The region has NBasis basis functions, NQuad quadrature points and one  *)
(* cell (the trailing cell axis is dropped).  v[a][q] is the list of the   *)
(* components of basis function a at point q: one value for region.h,      *)
(* FieldDim values (the derivatives) for region.dhdX.  values[a][i][q] is  *)
(* the array of integrands, and the result is values.sum(-2)[a][i].        *)
(*                                                                         *)
(*   lf.form     the LinearForm: grad_v, dx, and the weak form of the call *)
(*   lf.pc       position of the caller of integrate: "idle", "start"      *)
(*               (loop of line 98), "join" (loop of line 101), "sum"       *)
(*               (line 104), "returned", "raised"                          *)
(*   lf.k        index of the loop the caller is in                        *)
(*   lf.threads  the threads of line 93, in list order: their arguments    *)
(*               a, i, their position ("created", "started", "computed":   *)
(*               the right-hand side of line 91 is evaluated, "done",      *)
(*               "failed": the target raised and the thread ended) and     *)
(*               the value r they computed                                 *)
(*   lfLog       foreign: a thread changed a slot other than its own;      *)
(*               overtaken: a thread wrote before one started earlier;     *)
(*               running: the threads that had not ended when the sum was  *)
(*               taken                                                     *)
(***************************************************************************)
NBasis == 2

FieldDim == 2

NQuad == 2

\* self.v.region.h and self.v.region.dhdX of the field
RegionH == [a \in 1..NBasis |-> [q \in 1..NQuad |-> <<2 * a + q>>]]

RegionDhdX == [a \in 1..NBasis |-> [q \in 1..NQuad |->
                  [j \in 1..FieldDim |-> a + j * q - 2]]]

\* dx of LinearForm.__init__: the differential volumes, or None (the default)
Weights == [q \in 1..NQuad |-> q]

NoDx == <<>>

\* the weak forms: a load vector, and one that raises where the second
\* component of its argument is not zero at the first quadrature point
WeakForms == {"load", "partial"}

\* the LinearForm objects and weak forms integrate is called with
Forms == {[grad_v |-> FALSE, dx |-> Weights, weakform |-> "load"],
          [grad_v |-> TRUE, dx |-> Weights, weakform |-> "load"],
          [grad_v |-> FALSE, dx |-> Weights, weakform |-> "partial"],
          [grad_v |-> FALSE, dx |-> NoDx, weakform |-> "load"]}

\* lines 71-74
TestFunctions(form) == IF form.grad_v THEN RegionDhdX ELSE RegionH

\* np.eye(self.v.dim)
Eye(n) == [i \in 1..n |-> [k \in 1..n |-> IF i = k THEN 1 ELSE 0]]

\* np.tensordot(vone, vb, axes=0), per quadrature point
tensordot(vone, vb) ==
    [q \in 1..Len(vb) |-> [k \in 1..Len(vone) |->
        [c \in 1..Len(vb[q]) |-> vone[k] * vb[q][c]]]]

\* the load of the weak form at one point: the sum of (k + c) * m[k][c]
load(m) ==
    Sum([k \in 1..Len(m) |-> Sum([c \in 1..Len(m[k]) |-> (k + c) * m[k][c]])])

\* weakform(V): the integrand at every quadrature point, or an exception
weakform(kind, V) ==
    IF kind = "partial" /\ Len(V[1]) >= 2 /\ \E c \in 1..Len(V[1][2]) : V[1][2][c] # 0
    THEN [err |-> TRUE, val |-> Unset]
    ELSE [err |-> FALSE,
          val |-> [q \in 1..Len(V) |-> load(V[q])]]

\* weakform(V, *args, **kwargs) * self.dx with V of the pair (a, i): the
\* right-hand side of lines 82 and 91; None as dx raises a TypeError
integrand(form, a, i) ==
    Bind(weakform(form.weakform, tensordot(Eye(FieldDim)[i], TestFunctions(form)[a])),
         LAMBDA w :
        IF w.err \/ form.dx = NoDx THEN [err |-> TRUE, val |-> Unset]
        ELSE [err |-> FALSE, val |-> [q \in 1..NQuad |-> w.val[q] * form.dx[q]]])

\* np.zeros((len(v), self.v.dim, *v.shape[-2:]))
ZeroValues == [a \in 1..NBasis |-> [i \in 1..FieldDim |-> [q \in 1..NQuad |-> 0]]]

\* values[a, i] = r, written to the first slot of row a
assign_first(values, a, i, r) == [values EXCEPT ![a][1] = r]

\* values[a, i] = r
assign(values, a, i, r) == [values EXCEPT ![a][i] = r]

\* values.sum(-2)
sum_quadrature(values) ==
    [a \in 1..Len(values) |-> [i \in 1..Len(values[a]) |-> Sum(values[a][i])]]

\* zip(idx_a.ravel(), idx_i.ravel()) of np.indices(values.shape[:2]), which
\* is also the order of the loops of lines 79-80
Pairs == [k \in 1..(NBasis * FieldDim) |->
            [a |-> ((k - 1) \div FieldDim) + 1, i |-> ((k - 1) % FieldDim) + 1]]

\* the loops of lines 79-82 from pair k on
RECURSIVE serial_loop(_, _, _)
serial_loop(form, values, k) ==
    IF k > Len(Pairs) THEN [err |-> FALSE, values |-> values]
    ELSE Bind(integrand(form, Pairs[k].a, Pairs[k].i), LAMBDA r :
            IF r.err THEN [err |-> TRUE, values |-> values]
            ELSE serial_loop(form, assign(values, Pairs[k].a, Pairs[k].i, r.val), k + 1))

\* integrate(weakform, parallel=False)
integrate_serial(form) ==
    Bind(serial_loop(form, ZeroValues, 1), LAMBDA l :
        [err |-> l.err, values |-> l.values,
         ret |-> IF l.err THEN Unset ELSE sum_quadrature(l.values)])

\* lines 93-96
Threads ==
    [k \in 1..Len(Pairs) |-> [a |-> Pairs[k].a, i |-> Pairs[k].i,
                               pc |-> "created", r |-> Unset]]

Ended(t) == t.pc \in {"done", "failed"}

LFNoLog == [foreign |-> FALSE, overtaken |-> FALSE, running |-> {}]

LFInit ==
    /\ \E form \in Forms :
          lf = [form |-> form, parallel |-> FALSE, pc |-> "idle", k |-> 0,
                values |-> Unset, threads |-> <<>>, ret |-> Unset]
    /\ lfLog = LFNoLog
    /\ ib = None /\ ibLog = NoLog
    /\ ps = None /\ psLog = PSNoLog
    /\ ms = None /\ msLog = MSNoLog
    /\ cp = None /\ cpLog = CPNoLog
    /\ cm = None /\ cmLog = None

\* integrate(weakform, parallel=False): the whole call
LFIntegrateSerial ==
    /\ lf.pc = "idle"
    /\ \E r \in {integrate_serial(lf.form)} :
          lf' = [lf EXCEPT !.parallel = FALSE, !.values = r.values, !.ret = r.ret,
                           !.pc = IF r.err THEN "raised" ELSE "returned"]
    /\ UNCHANGED <<lfLog, ib, ibLog, ps, psLog, ms, msLog, cp, cpLog, cm, cmLog>>

\* integrate(weakform, parallel=True) up to the loop of line 98
LFIntegrateParallel ==
    /\ lf.pc = "idle"
    /\ lf' = [lf EXCEPT !.parallel = TRUE, !.values = ZeroValues,
                        !.threads = Threads, !.pc = "start", !.k = 1]
    /\ UNCHANGED <<lfLog, ib, ibLog, ps, psLog, ms, msLog, cp, cpLog, cm, cmLog>>

\* t.start() of line 99; after the last one the caller is at line 101
LFStart ==
    /\ lf.pc = "start"
    /\ lf' = [lf EXCEPT !.threads[lf.k].pc = "started",
                        !.k = IF lf.k = Len(lf.threads) THEN 1 ELSE lf.k + 1,
                        !.pc = IF lf.k = Len(lf.threads) THEN "join" ELSE "start"]
    /\ UNCHANGED <<lfLog, ib, ibLog, ps, psLog, ms, msLog, cp, cpLog, cm, cmLog>>

\* a thread evaluates the right-hand side of line 91; an exception ends the
\* thread (threading reports it and the thread terminates)
LFWork ==
    /\ \E t \in 1..Len(lf.threads) :
          /\ lf.threads[t].pc = "started"
          /\ \E r \in {integrand(lf.form, lf.threads[t].a, lf.threads[t].i)} :
                lf' = [lf EXCEPT !.threads[t].pc = IF r.err THEN "failed" ELSE "computed",
                                 !.threads[t].r = r.val]
    /\ UNCHANGED <<lfLog, ib, ibLog, ps, psLog, ms, msLog, cp, cpLog, cm, cmLog>>

\* a thread stores its value: the assignment of line 91
LFWrite ==
    /\ \E t \in 1..Len(lf.threads) :
          /\ lf.threads[t].pc = "computed"
          /\ \E w \in {assign(lf.values, lf.threads[t].a, lf.threads[t].i,
                              lf.threads[t].r)} :
                /\ lf' = [lf EXCEPT !.values = w, !.threads[t].pc = "done"]
                /\ lfLog' = [lfLog EXCEPT
                      !.foreign = @ \/ \E a \in 1..NBasis, i \in 1..FieldDim :
                                          /\ <<a, i>> # <<lf.threads[t].a, lf.threads[t].i>>
                                          /\ w[a][i] # lf.values[a][i],
                      !.overtaken = @ \/ \E s \in 1..(t - 1) : lf.threads[s].pc # "done"]
    /\ UNCHANGED <<ib, ibLog, ps, psLog, ms, msLog, cp, cpLog, cm, cmLog>>

\* t.join() of line 102 returns when the thread has ended, however it ended
LFJoin ==
    /\ lf.pc = "join"
    /\ Ended(lf.threads[lf.k])
    /\ lf' = [lf EXCEPT !.k = IF lf.k = Len(lf.threads) THEN lf.k ELSE lf.k + 1,
                        !.pc = IF lf.k = Len(lf.threads) THEN "sum" ELSE "join"]
    /\ UNCHANGED <<lfLog, ib, ibLog, ps, psLog, ms, msLog, cp, cpLog, cm, cmLog>>

\* return values.sum(-2) of the parallel call
LFReturn ==
    /\ lf.pc = "sum"
    /\ lf' = [lf EXCEPT !.ret = sum_quadrature(lf.values), !.pc = "returned"]
    /\ lfLog' = [lfLog EXCEPT !.running =
                    {t \in 1..Len(lf.threads) : ~Ended(lf.threads[t])}]
    /\ UNCHANGED <<ib, ibLog, ps, psLog, ms, msLog, cp, cpLog, cm, cmLog>>

LFNext ==
    \/ LFIntegrateSerial \/ LFIntegrateParallel \/ LFStart \/ LFWork \/ LFWrite
    \/ LFJoin \/ LFReturn

SpecLF == LFInit /\ [][LFNext]_vars


(***************************************************************************)
(* Claims on Composite                                                     *)
(***************************************************************************)
\* the materials of the last call, each called alone with the input of the
\* call, from the state it had
Alone ==
    Eager([k \in 1..Len(cpLog.before.materials) |->
             LET r == MemberCall(cpLog.before.materials[k], cpLog.op, cpLog.arg)
             IN  [err |-> r.err,
                  ret |-> IF r.err THEN Unset
                          ELSE Eager([p \in Points |-> Eager(r.ret[p])])]])

Components == IF cpLog.op = "stress" THEN Idx2 ELSE Idx4

Orders(n) == {f \in [1..n -> 1..n] : \A i, j \in 1..n : i # j => f[i] # f[j]}

\* the last call made on the same materials listed in the order f
Reordered(f) ==
    Composite_call(Composite([k \in 1..Len(f) |-> cpLog.before.materials[f[k]]]),
                   cpLog.op, cpLog.arg, Components)

\* C1: stress and elasticity of a Composite equal the elementwise sum of
\* what each member returns on its own for the same input, and the result
\* does not depend on the order of the members in the list.
C1_Additive ==
    cpLog.calls >= 1 =>
        LET n == Len(cpLog.before.materials)
            alone == Alone
        IN  /\ cpLog.err = (\E k \in 1..n : alone[k].err)
            /\ ~cpLog.err =>
                 \A p \in Points : \A q \in Components :
                     cpLog.ret[p][q] = SumOver(1..n, [k \in 1..n |-> alone[k].ret[p][q]])
            /\ \A f \in Orders(n) :
                 LET r == Reordered(f)
                 IN  r.err = cpLog.err /\ r.ret = cpLog.ret

\* an elasticity call on three materials of different kinds, one of them
\* InvariantBased, that returned a tensor whose entries the members all
\* contribute to
C1_Witness ==
    /\ cpLog.calls >= 1 /\ ~cpLog.err /\ cpLog.op = "elasticity"
    /\ Len(cpLog.before.materials) = 3
    /\ \A i, j \in 1..3 : i # j => cpLog.before.materials[i] # cpLog.before.materials[j]
    /\ \E q \in Idx4 : \A k \in 1..3 : Alone[k].ret[1][q] # 0 /\ cpLog.ret[1][q] # 0

(***************************************************************************)
(* Claims on MaterialStrain                                                *)
(***************************************************************************)
MinorSymmetric(d, T) ==
    \A q \in MIdx4(d) : T[q] = T[SwapFirst(q)] /\ T[q] = T[SwapSecond(q)]

\* C4: hessian returns the average T of the user tensor C with its three
\* minor-index-swapped variants; T[i,j,k,l] = T[j,i,k,l] = T[i,j,l,k] for all
\* indices, and T equals C when C is minor-symmetric already.
C4_MinorSymmetric ==
    (msLog.op = "hessian" /\ ~msLog.err) =>
        LET d == ms.self.dim
            C == msLog.user.dsde
            T == msLog.ret
        IN  /\ T.den = 4
            /\ \A q \in MIdx4(d) :
                  T.num[q] = C[q] + C[SwapFirst(q)] + C[SwapSecond(q)] + C[SwapBoth(q)]
            /\ MinorSymmetric(d, T.num)
            /\ MinorSymmetric(d, C) => \A q \in MIdx4(d) : T.num[q] = T.den * C[q]

\* a hessian call on a user tensor that is not minor-symmetric
C4_Witness ==
    /\ msLog.op = "hessian" /\ ~msLog.err /\ ms.self.dim >= 2
    /\ ~MinorSymmetric(ms.self.dim, msLog.user.dsde)
    /\ \E q \in MIdx4(ms.self.dim) : msLog.ret.num[q] # msLog.ret.den * msLog.user.dsde[q]

\* a hessian call on a user tensor that is minor-symmetric already
C4_WitnessSymmetric ==
    /\ msLog.op = "hessian" /\ ~msLog.err /\ ms.self.dim >= 2
    /\ MinorSymmetric(ms.self.dim, msLog.user.dsde)
    /\ \E q \in MIdx4(ms.self.dim) : msLog.user.dsde[q] # 0

\* C5: if gradient((F, s0)) returns [stress, s1] then extract((F', s1))
\* yields strain_old = sym(F - I), stress_old = stress and the history
\* tensors the user function returned, in their declared shapes; s1 is as
\* long as s0; at every step of a chain that starts from the zero state.
C5_RoundTrip ==
    (msLog.op = "gradient" /\ ~msLog.err) =>
        LET d == ms.self.dim
            F == msLog.dxdX
            s1 == msLog.ret.statevars
        IN  /\ Len(s1) = Len(msLog.sv)
            /\ ms.sv = s1
            /\ \A F2 \in MFVals(d) :
                 LET e == extract(ms.self, [dxdX |-> F2, statevars |-> s1])
                 IN  /\ ~e.err
                     /\ e.strain_old =
                          sym(d, [ij \in MIdx2(d) |-> F[ij] - midentity(d)[ij]])
                     /\ e.stress_old = msLog.ret.stress
                     /\ e.statevars_old = msLog.user.statevars
                     /\ \A k \in 1..Len(e.statevars_old) :
                          e.statevars_old[k].shape = ms.self.statevars_shape[k]

\* the second step of a chain: the state vector passed in is not zero any
\* more, the instance declares two history tensors, and the stress, the
\* strain and the history all changed in the step
C5_Witness ==
    /\ msLog.op = "gradient" /\ ~msLog.err /\ msLog.steps >= 2
    /\ Len(ms.self.statevars_shape) = 2 /\ ms.self.dim = 2
    /\ \E k \in 1..Len(msLog.sv) : msLog.sv[k] # 0
    /\ msLog.ret.statevars # msLog.sv
    /\ \E k \in 1..ms.self.nstatevars : msLog.ret.statevars[k] # msLog.sv[k]
    /\ \E ij \in MIdx2(2) : msLog.ret.stress[ij] # 0

\* C6: a call of extract, gradient or hessian with a state vector whose
\* length differs from 2 dim^2 + (sum of the declared sizes) ends in an
\* error before the user material function is invoked, and returns nothing.
C6_WrongLength ==
    (msLog.calls >= 1
       /\ Len(msLog.sv) # 2 * ms.self.dim * ms.self.dim + ms.self.nstatevars) =>
        /\ msLog.err
        /\ ~msLog.reached
        /\ msLog.ret = Unset

\* a gradient call with a state vector that is too long and holds the
\* values of an earlier step
C6_Witness ==
    /\ msLog.op = "gradient" /\ msLog.calls >= 2 /\ msLog.err
    /\ Len(msLog.sv) > 2 * ms.self.dim * ms.self.dim + ms.self.nstatevars
    /\ \E k \in 1..Len(msLog.sv) : msLog.sv[k] # 0

\* a hessian call with a state vector that is too short
C6_WitnessShort ==
    /\ msLog.op = "hessian" /\ msLog.err
    /\ Len(msLog.sv) < 2 * ms.self.dim * ms.self.dim + ms.self.nstatevars
    /\ Len(msLog.sv) >= ms.self.dim * ms.self.dim

(***************************************************************************)
(* Claims on InvariantBased and PrincipalStretchBased                      *)
(***************************************************************************)

\* C2: in a sequence of stress/elasticity calls that all receive the same
\* input b, the expensive part of update (invariants or eigen-decomposition
\* plus umat) is executed exactly once.
C2_UpdateOnce ==
    /\ (ibLog.calls >= 1 /\ ibLog.same /\ ~ibLog.err) => ibLog.updates = 1
    /\ (psLog.calls >= 1 /\ psLog.same /\ ~psLog.err) => psLog.updates = 1

\* what a freshly constructed instance does for the last call
IBFresh == IF ibLog.op = "stress"
           THEN InvariantBased_stress(InvariantBased(ib.umat), ibLog.arg)
           ELSE InvariantBased_elasticity(InvariantBased(ib.umat), ibLog.arg)

PSFresh == IF psLog.op = "stress"
           THEN PrincipalStretchBased_stress(
                    PrincipalStretchBased(ps.umat, ps.tol), psLog.arg)
           ELSE PrincipalStretchBased_elasticity(
                    PrincipalStretchBased(ps.umat, ps.tol), psLog.arg)

\* C3: after any sequence of earlier calls, stress(b) and elasticity(b) do
\* exactly what a freshly constructed instance with the same energy function
\* does for b: the outcome depends on the current input only.
C3_HistoryFree ==
    /\ ibLog.calls >= 1 => (ibLog.err = IBFresh.err /\ ibLog.ret = IBFresh.ret)
    /\ psLog.calls >= 1 => (psLog.err = PSFresh.err /\ psLog.ret = PSFresh.ret)

Major(q) == <<q[3], q[4], q[1], q[2]>>

\* C8: for symmetric b and symmetric W_ab the elasticity tensors of both
\* classes satisfy C[i,j,k,l] = C[k,l,i,j] for all indices.
C8_MajorSymmetry ==
    /\ (ibLog.op = "elasticity" /\ ~ibLog.err) =>
          \A p \in Points : \A q \in Idx4 : ibLog.ret[p][q] = ibLog.ret[p][Major(q)]
    /\ (psLog.op = "elasticity" /\ ~psLog.err) =>
          \A p \in Points : \A q \in Idx4 :
              FEq(psLog.ret[p][q], psLog.ret[p][Major(q)])

\* The symmetry of C8 for the tensors of PrincipalStretchBased.elasticity
\* that are finite: there it holds.
MajorSymmetryWhereFinite ==
    (psLog.op = "elasticity" /\ ~psLog.err
       /\ \A p \in Points : \A q \in Idx4 : IsFinite(psLog.ret[p][q])) =>
        \A p \in Points : \A q \in Idx4 :
            psLog.ret[p][q] = psLog.ret[p][Major(q)]

\* every principal stretch of the batch b is positive
PositiveStretches(b) == \A p \in Points : \A i \in Idx : b[p][i, i] > 0

\* C9: with tol > 0 and positive principal stretches every denominator
\* la**2 - lb**2 that elasticity divides by is nonzero, and the returned
\* tensor is finite.
C9_Finite ==
    (psLog.op = "elasticity" /\ ~psLog.err /\ ps.tol > 0
       /\ PositiveStretches(psLog.arg)) =>
        /\ \A p \in Points : \A n \in 1..Len(psLog.dens[p]) :
               psLog.dens[p][n][5] # 0
        /\ \A p \in Points : \A q \in Idx4 : IsFinite(psLog.ret[p][q])

\* 2 W1 b + 2 W2 (I1 b - b.b) + 2 W3 I3 I at the invariants of b, no term
\* skipped
FullStress(kind, b) ==
    [p \in Points |->
       LET I1 == trace(b[p])
           I2 == (I1 * I1 - trace(dot(b[p], b[p]))) \div 2
           I3 == det(b[p])
           W == umat(kind, <<I1, I2, I3>>).W_a
           bb == dot(b[p], b[p])
       IN  [ij \in Idx2 |-> 2 * W[1] * b[p][ij]
                          + 2 * W[2] * (I1 * b[p][ij] - bb[ij])
                          + 2 * W[3] * I3 * identity[ij]]]

\* C10: for every batch b and every energy function, InvariantBased.stress(b)
\* equals 2 W1 b + 2 W2 (I1 b - b.b) + 2 W3 I3 I with I1 = tr(b), I3 = det(b),
\* whichever of W1, W2, W3 vanish over the batch.
C10_StressFormula ==
    ibLog.op = "stress" =>
        (~ibLog.err /\ ibLog.ret = FullStress(ib.umat, ibLog.arg))

\* The formula of C10 away from the input that the guard of update takes
\* for an unchanged one (the zero batch): there it holds, skipped terms
\* included.
StressFormulaOffZero ==
    (ibLog.op = "stress" /\ ~ibLog.err /\ ~InvariantBased_guard(ib, ibLog.arg))
        => ibLog.ret = FullStress(ib.umat, ibLog.arg)

(***************************************************************************)
(* The linear-elastic scenario of the class docstring                      *)
(***************************************************************************)
\* 2 mu (I (x)s I) + lambda (I (x) I) with mu = 1, lambda = 2, where
\* I (x)s I = (I_ik I_jl + I_il I_jk) / 2
LinearTangent(d, q) ==
    LET I == midentity(d)
    IN  (I[q[1], q[3]] * I[q[2], q[4]] + I[q[1], q[4]] * I[q[2], q[3]])
        + 2 * I[q[1], q[2]] * I[q[3], q[4]]

\* the stress diag(4, 2, 2) of the scenario
ScenarioStress == [ij \in MIdx2(3) |-> IF ij[1] # ij[2] THEN 0
                                       ELSE IF ij[1] = 1 THEN 4 ELSE 2]

\* C11: with linear_elastic, lambda = 2 and mu = 1, the first gradient call,
\* from the all-zero state vector with the small strain diag(1, 0, 0),
\* returns the stress diag(4, 2, 2) (strain and stress in units of 0.01) and
\* a state vector whose old-strain and old-stress slots hold that strain and
\* that stress; every hessian call, whatever the deformation gradient and the
\* state vector, returns 2 mu (I (x)s I) + lambda (I (x) I).
C11_LinearElastic ==
    (ms.self.material = "linear_elastic" /\ msLog.calls > 0 /\ ~msLog.err) =>
        /\ (/\ msLog.op = "gradient"
            /\ ms.self.dim = 3
            /\ msLog.sv = zeros(Len(msLog.sv))
            /\ msLog.dxdX = Uniaxial(3)) =>
               LET n == ms.self.nstatevars
                   v == msLog.ret.statevars
               IN  /\ msLog.ret.stress = ScenarioStress
                   /\ Len(v) = n + 18
                   /\ SubSeq(v, n + 1, n + 9) = <<1, 0, 0, 0, 0, 0, 0, 0, 0>>
                   /\ SubSeq(v, n + 10, n + 18) = <<4, 0, 0, 0, 2, 0, 0, 0, 2>>
        /\ msLog.op = "hessian" =>
               \A q \in MIdx4(ms.self.dim) :
                   msLog.ret.num[q] = msLog.ret.den * LinearTangent(ms.self.dim, q)

\* the tangent was asked for after the scenario's step, with the state
\* vector that step returned and another deformation gradient
C11_Witness ==
    /\ ms.self.material = "linear_elastic" /\ ms.self.dim = 3
    /\ msLog.calls = 2 /\ msLog.op = "hessian" /\ ~msLog.err
    /\ msLog.dxdX # Uniaxial(3)
    /\ SubSeq(msLog.sv, ms.self.nstatevars + 1, ms.self.nstatevars + 18)
         = <<1, 0, 0, 0, 0, 0, 0, 0, 0, 4, 0, 0, 0, 2, 0, 0, 0, 2>>

(***************************************************************************)
(* Claims on CompositeMaterial and ConstitutiveMaterial.optimize           *)
(***************************************************************************)
\* the CompositeMaterial as its constructor leaves it
Constructed == cm.composed /\ cmLog = CMNoLog /\ cm.fit = NoFit

\* the keys both materials have
CommonKeys(c) == KeySet(c.materials[1].keys) \cap KeySet(c.materials[2].keys)

\* C12 as stated: the merged mapping of a newly built CompositeMaterial
\* holds, for a key of both materials, the value of the second material.
C12_LaterWins ==
    Constructed =>
        \A k \in CommonKeys(cm.obj) :
            cm.obj.kwargs.val[k] = cm.obj.materials[2].self.kwargs[k]

\* C12 amended: the merged mapping of a newly built CompositeMaterial has
\* the keys of both materials and holds, for a key of both, the value of
\* the first material (for any other key, the value of the material that
\* has it).
C12_FirstWins ==
    Constructed =>
        /\ KeySet(cm.obj.kwargs.keys)
             = KeySet(cm.obj.materials[1].keys) \cup KeySet(cm.obj.materials[2].keys)
        /\ \A k \in KeySet(cm.obj.materials[1].keys) :
               cm.obj.kwargs.val[k] = cm.obj.materials[1].self.kwargs[k]
        /\ \A k \in KeySet(cm.obj.materials[2].keys) \ KeySet(cm.obj.materials[1].keys) :
               cm.obj.kwargs.val[k] = cm.obj.materials[2].self.kwargs[k]

\* a CompositeMaterial of two materials that give a common key two values
C12_Witness ==
    /\ Constructed
    /\ \E k \in CommonKeys(cm.obj) :
          /\ k # "tangent"
          /\ cm.obj.materials[1].self.kwargs[k] # cm.obj.materials[2].self.kwargs[k]
          /\ cm.obj.kwargs.val[k] = cm.obj.materials[1].self.kwargs[k]

\* each material of the last call evaluated alone on the descriptor of the
\* call, from the state it had
AloneOn(op) ==
    IF op = "gradient"
    THEN <<gradient(cmLog.before.materials[1].self, cmLog.x),
           gradient(cmLog.before.materials[2].self, cmLog.x)>>
    ELSE <<hessian(cmLog.before.materials[1].self, cmLog.x),
           hessian(cmLog.before.materials[2].self, cmLog.x)>>

\* C13: gradient(x) of CompositeMaterial(A, B), x = [F, statevars] with one
\* field, returns two entries: the entry-by-entry sum of the stresses of A
\* and B on x, and the new state vector returned by A; hessian(x) returns one
\* entry, the entry-by-entry sum of the tangents of A and B on x.  The call
\* raises exactly when A or B raises on x.
C13_Sums ==
    cmLog.op \in {"gradient", "hessian"} =>
        Bind(AloneOn(cmLog.op), LAMBDA alone :
            IF alone[1].err \/ alone[2].err THEN cmLog.err
            ELSE /\ ~cmLog.err
                 /\ cmLog.op = "gradient" =>
                      /\ Len(cmLog.ret) = Len(<<cmLog.x.dxdX, cmLog.x.statevars>>)
                      /\ \A ij \in MIdx2(DefaultDim) :
                            cmLog.ret[1][ij] = alone[1].ret.stress[ij] + alone[2].ret.stress[ij]
                      /\ cmLog.ret[2] = alone[1].ret.statevars
                 /\ cmLog.op = "hessian" =>
                      /\ Len(cmLog.ret) = Len(<<cmLog.x.dxdX, cmLog.x.statevars>>) - 1
                      /\ cmLog.ret[1].den = alone[1].ret.den
                      /\ cmLog.ret[1].den = alone[2].ret.den
                      /\ \A q \in MIdx4(DefaultDim) :
                            cmLog.ret[1].num[q] = alone[1].ret.num[q] + alone[2].ret.num[q])

\* a gradient call, after an earlier step, in which the two materials return
\* different stresses and different state vectors
C13_Witness ==
    /\ cmLog.op = "gradient" /\ ~cmLog.err /\ cmLog.calls = 2
    /\ cmLog.x.statevars # zeros(Len(cmLog.x.statevars))
    /\ AloneOn("gradient")[1].ret.statevars # AloneOn("gradient")[2].ret.statevars
    /\ AloneOn("gradient")[2].ret.stress # cmLog.ret[1]
    /\ cmLog.ret[2] # AloneOn("gradient")[2].ret.statevars

\* the keys of material k of the CompositeMaterial that the other material
\* does not have, the "tangent" flag aside
OwnKeys(c, k) ==
    (KeySet(c.materials[k].keys) \ KeySet(c.materials[3 - k].keys)) \ {"tangent"}

\* C16: once optimize has written trial values to the parameter mapping of
\* a CompositeMaterial, every evaluation finds each material evaluating
\* with the values the mapping holds for the material's own parameters.
C16_WritesReachMaterials ==
    (/\ cm.fit.target = "composite" /\ cm.fit.evaluated # <<>>
     /\ cmLog.op \in {"gradient", "hessian", "fun"} /\ ~cmLog.err) =>
        \A k \in 1..2 : \A key \in OwnKeys(cm.obj, k) :
            cmLog.used[k][key] = cm.obj.kwargs.val[key]

\* the parameters of the material optimize was called on, the "tangent"
\* flag aside
Parameters(d) == [k \in KeySet(d.keys) \ {"tangent"} |-> d.val[k]]

\* the copy returned by optimize has the keys of the material in their
\* order and holds the vector res.x
CopyCarriesFit ==
    cm.fit.pc = "returned" =>
        Bind(IF cm.fit.target = "composite" THEN cm.fit.umat.kwargs
             ELSE KwargsOf(cm.fit.umat), LAMBDA d :
            /\ d.keys = cm.fit.before.keys
            /\ Values(d) = cm.fit.x)

Root(b, p, a) == FSqrt(eigh(b[p]).wb[a])

\* C17: after elasticity(b) has updated and returned, the stored stretches
\* are the square roots of the eigenvalues of b, and in every pair (a, b) of
\* the evaluation lb was the root of its eigenvalue and la the root of its
\* eigenvalue, shifted by the tolerance at most once.
C17_StretchesKept ==
    (/\ psLog.op = "elasticity" /\ ~psLog.err
     /\ ~PrincipalStretchBased_guard(ps, psLog.arg)) =>
        \A p \in Points :
            /\ \A a \in 1..3 : ps.stretches[a][p] = Root(psLog.arg, p, a)
            /\ \A n \in 1..Len(psLog.dens[p]) :
                  /\ psLog.dens[p][n][4] = Root(psLog.arg, p, psLog.dens[p][n][2])
                  /\ psLog.dens[p][n][3] \in
                        {Root(psLog.arg, p, psLog.dens[p][n][1]),
                         FAdd(Root(psLog.arg, p, psLog.dens[p][n][1]), ps.tol)}

(***************************************************************************)
(* Claims on LinearForm.integrate                                          *)
(***************************************************************************)
\* the threads whose target raised
Failed == {t \in 1..Len(lf.threads) : lf.threads[t].pc = "failed"}

\* C14: when the weak form raises in a thread of integrate(parallel=True),
\* the call does not return an array.
C14_WorkerFailureFails ==
    (lf.parallel /\ Failed # {}) => lf.pc # "returned"

\* C15: in integrate(parallel=True), at every point of every interleaving,
\* there is exactly one thread for each pair (a, i), no thread has changed
\* a slot other than values[a, i] of its own pair, the sum is taken when
\* every thread has ended and been joined, and the array returned is the one
\* integrate(parallel=False) returns for the same LinearForm and weak form
\* (where that call returns one).
C15_ParallelAsSerial ==
    lf.parallel =>
        /\ \A a \in 1..NBasis, i \in 1..FieldDim :
              Cardinality({t \in 1..Len(lf.threads) :
                              lf.threads[t].a = a /\ lf.threads[t].i = i}) = 1
        /\ Len(lf.threads) = NBasis * FieldDim
        /\ ~lfLog.foreign
        /\ lf.pc \in {"sum", "returned"} =>
              /\ \A t \in 1..Len(lf.threads) : Ended(lf.threads[t])
              /\ lf.k = Len(lf.threads)
              /\ lfLog.running = {}
        /\ (lf.pc = "returned" /\ ~integrate_serial(lf.form).err) =>
              lf.ret = integrate_serial(lf.form).ret

\* a parallel call has returned an array without a zero entry, of the
\* gradient form, after a thread overtook one started before it
C15_Witness ==
    /\ lf.parallel /\ lf.pc = "returned" /\ Failed = {}
    /\ lfLog.overtaken
    /\ lf.form.grad_v
    /\ \A a \in 1..NBasis, i \in 1..FieldDim : lf.ret[a][i] # 0
    /\ lf.ret = integrate_serial(lf.form).ret

====
